---- MODULE Spec2Model ----
(***************************************************************************)
(* Model of src/src/lib/search.ts: the fuzzy-matcher factory with its      *)
(* process-wide match cache, fuzzySearch, fuzzySearchWithScores,           *)
(* hybridSearch, enrichCourses, wordBasedSearch, searchCourses,            *)
(* normaliseSubjectQuery, searchSubjects, studentMatchesQuery and          *)
(* sortStudents, and two callers interleaved inside createFuzzySearch.     *)
(*                                                                         *)
(* Strings are sequences of one-character strings.  Numbers that come from *)
(* parseFloat are exact decimal fractions [nan, n, d] (value n/d).  Time   *)
(* is in milliseconds, as Date.now() returns it.  Record constructors list *)
(* their fields in the order the model checker keeps them in.              *)
(***************************************************************************)
EXTENDS Integers, Sequences, FiniteSets, TLC

VARIABLES now, ticks, searchCache, call, ret, pre, inflight

vars == <<now, ticks, searchCache, call, ret, pre, inflight>>

----------------------------------------------------------------------------
(* Bounds of the model. *)

\* Number of clock advances (Tick steps and index-build delays) in a run.
MaxTicks == 2

\* Longest course list handed to enrichCourses on its own.
MaxCourses == 2

\* The longest list of students handed to sortStudents.
MaxStudents == 3

----------------------------------------------------------------------------
(* String primitives of the JavaScript runtime. *)

IsSpace(c) == c = " "

ToLowerChar(c) ==
  CASE c = "A" -> "a"
    [] c = "B" -> "b"
    [] c = "C" -> "c"
    [] c = "M" -> "m"
    [] c = "N" -> "n"
    [] c = "P" -> "p"
    [] c = "L" -> "l"
    [] c = "R" -> "r"
    [] OTHER -> c

\* String.prototype.toLowerCase
ToLowerCase(s) == [i \in 1..Len(s) |-> ToLowerChar(s[i])]

\* String.prototype.trim
Trim(s) ==
  LET keep == {i \in 1..Len(s) : ~IsSpace(s[i])}
  IN  IF keep = {} THEN <<>>
      ELSE LET first == CHOOSE i \in keep : \A j \in keep : i <= j
               last  == CHOOSE i \in keep : \A j \in keep : j <= i
           IN  SubSeq(s, first, last)

\* String.prototype.startsWith
StartsWith(s, p) == Len(p) <= Len(s) /\ SubSeq(s, 1, Len(p)) = p

\* String.prototype.includes
Includes(s, p) ==
  \E i \in 1..(Len(s) - Len(p) + 1) : SubSeq(s, i, i + Len(p) - 1) = p

\* String.prototype.split(/\s+/)
RECURSIVE SplitWs(_)
SplitWs(s) ==
  LET sp == {i \in 1..Len(s) : IsSpace(s[i])}
  IN  IF sp = {} THEN <<s>>
      ELSE LET i == CHOOSE x \in sp : \A y \in sp : x <= y
               rest == {x \in (i + 1)..Len(s) : ~IsSpace(s[x])}
               j == IF rest = {} THEN Len(s) + 1
                    ELSE CHOOSE x \in rest : \A y \in rest : x <= y
           IN  <<SubSeq(s, 1, i - 1)>> \o SplitWs(SubSeq(s, j, Len(s)))

\* Does the sequence hold the element (Array.prototype.includes)
Has(s, x) == \E i \in 1..Len(s) : s[i] = x

\* Array.prototype.slice(0, n) for n >= 0
Slice0(s, n) == SubSeq(s, 1, IF n < Len(s) THEN n ELSE Len(s))

\* Array.prototype.map(x => x[field])
Pluck(s, field) == [i \in 1..Len(s) |-> s[i][field]]

\* Array.prototype.sort with a consistent comparator: the sort is stable, so
\* an element ends after every element that compares smaller and after every
\* earlier element that compares equal.  cmp[i][j] is the comparator's
\* value for (s[i], s[j]): negative, zero or positive.
StableSort(s, cmp) ==
  LET n == Len(s)
      pos(i) == 1 + Cardinality({j \in 1..n :
                       \/ cmp[j][i] < 0
                       \/ (cmp[j][i] = 0 /\ j < i)})
  IN  [p \in 1..n |-> s[CHOOSE i \in 1..n : pos(i) = p]]

\* The comparator (a, b) => a.score - b.score over a sequence.
ByScore(s) == [i \in 1..Len(s) |-> [j \in 1..Len(s) |-> s[i].score - s[j].score]]

----------------------------------------------------------------------------
(* Search configuration. *)

\* An optional property that is absent (undefined).
Undef == -1

\* DEFAULT_SEARCH_OPTIONS.threshold (0.3), in tenths.
DefaultThreshold == 3

\* DEFAULT_SEARCH_OPTIONS.minMatchCharLength
DefaultMinMatchCharLength == 1

\* const CACHE_TTL, in milliseconds
CACHE_TTL == 5 * 60 * 1000

\* A key of SearchOptions.keys: { name, weight } (weight in tenths), or a
\* plain string, which has no weight.
Key(name, weight) == [name |-> name, weight |-> weight]

\* A SearchOptions object with the properties the callers set.
Options(keys, threshold, minMatchCharLength) ==
  [keys |-> keys, threshold |-> threshold,
   minMatchCharLength |-> minMatchCharLength]

\* The properties of a record that hold strings (typeof value === 'string').
StringFields == {"code", "name", "rank", "institution", "campus", "searchText"}

----------------------------------------------------------------------------
(* The fuse.js matcher: an index keeps the collection it was built over and  *)
(* the configuration merged over the defaults; search scores every document  *)
(* of the index against the pattern, case-insensitively and without regard   *)
(* to location, and returns the documents within the threshold ordered by    *)
(* ascending score, ties by position in the index.                           *)

\* new Fuse(data, { ...DEFAULT_SEARCH_OPTIONS, ...options })
NewFuse(data, options) ==
  [keys |-> options.keys,
   threshold |-> IF options.threshold = Undef THEN DefaultThreshold
                 ELSE options.threshold,
   minMatchCharLength |-> IF options.minMatchCharLength = Undef
                          THEN DefaultMinMatchCharLength
                          ELSE options.minMatchCharLength,
   docs |-> data]

\* Math.min over a non-empty set of numbers
Min(S) == CHOOSE x \in S : \A y \in S : x <= y

\* Fewest characters of the pattern that differ from the text over all the
\* places the pattern can be laid on the text.
KeyDist(text, pat) ==
  Min({Cardinality({j \in 1..Len(pat) :
                      \/ i + j - 1 > Len(text)
                      \/ text[i + j - 1] # pat[j]}) :
       i \in 1..(IF Len(text) = 0 THEN 1 ELSE Len(text))})

\* The keys of the index that the document holds a string under.
keysOf(fuse, item) ==
  {i \in 1..Len(fuse.keys) :
     /\ fuse.keys[i].name \in DOMAIN item
     /\ fuse.keys[i].name \in StringFields}

\* The score of one document: 0 is a perfect match, 100 no match at all.
FuseScore(fuse, item, pattern) ==
  IF keysOf(fuse, item) = {} \/ Len(pattern) = 0 THEN 100
  ELSE (Min({KeyDist(ToLowerCase(item[fuse.keys[i].name]),
                     ToLowerCase(pattern)) : i \in keysOf(fuse, item)})
        * 100) \div Len(pattern)

\* The scored documents within the threshold.
FuseWithin(scored, threshold) ==
  SelectSeq(scored, LAMBDA r : r.score <= threshold * 10)

\* Ascending score (shouldSort).
Sorted(hits) == StableSort(hits, ByScore(hits))

\* The documents within the threshold, best score first.
FuseHits(scored, threshold) == Sorted(FuseWithin(scored, threshold))

\* fuse.search(pattern): sequence of { item, refIndex, score }
FuseSearch(fuse, pattern) ==
  FuseHits([i \in 1..Len(fuse.docs) |->
              [score |-> FuseScore(fuse, fuse.docs[i], pattern),
               item |-> fuse.docs[i], refIndex |-> i - 1]],
           fuse.threshold)

----------------------------------------------------------------------------
(* The match cache: a map from cache key to { fuse, timestamp }. *)

EmptyCache == <<>>

NoOptions == Options(<<>>, Undef, Undef)

NoFuse == NewFuse(<<>>, NoOptions)

NoKey == [options |-> NoOptions, dataLength |-> Undef]

\* A cache key that serialises the records too.
getCacheKey_WithContent(data, options) ==
  [data |-> data, options |-> options, dataLength |-> Len(data)]

\* getCacheKey: the serialised { dataLength, options }
getCacheKey(data, options) ==
  [options |-> options, dataLength |-> Len(data)]

\* A sweep that keeps entries for twice the TTL.
clearExpiredCache_TwiceTTL(cache, t) ==
  [k \in {k \in DOMAIN cache : ~(t - cache[k].timestamp > 2 * CACHE_TTL)}
     |-> cache[k]]

\* A sweep that deletes nothing.
clearExpiredCache_NoSweep(cache, t) == cache

\* clearExpiredCache at Date.now() = t
clearExpiredCache(cache, t) ==
  LET live == {k \in DOMAIN cache : ~(t - cache[k].timestamp > CACHE_TTL)}
  IN  [k \in live |-> cache[k]]

\* The outcome of a library call: the cache and the clock after it, the
\* returned value, and what the call did with the cache (whether it reached
\* createFuzzySearch, under which key, the entries the cache held on entry
\* for a collection of that length under that configuration, the keys the
\* sweep deleted, whether the lookup hit, and the index used).
Outcome(cache, t, value, lookup, key, before, dropped, hit, fuse) ==
  [now |-> t, fuse |-> fuse, cache |-> cache, value |-> value,
   lookup |-> lookup, key |-> key, before |-> before, dropped |-> dropped,
   hit |-> hit]

\* A call that returns without reaching createFuzzySearch.
Untouched(cache, t, value) ==
  Outcome(cache, t, value, FALSE, NoKey, {}, {}, FALSE, NoFuse)

\* The entries of the cache that were stored for a collection of the length
\* of data under the configuration options.
entriesFor(cache, data, options) ==
  {cache[k] : k \in {x \in DOMAIN cache :
                       x.dataLength = Len(data) /\ x.options = options}}

\* A lookup that stamps the entry it finds with the time of the hit.
lookupOrBuild_Refreshing(swept, cacheKey, before, dropped, t, d, data, options) ==
  IF cacheKey \in DOMAIN swept
  THEN Outcome([swept EXCEPT ![cacheKey].timestamp = t], t,
               swept[cacheKey].fuse, TRUE, cacheKey, before, dropped, TRUE,
               swept[cacheKey].fuse)
  ELSE Outcome((cacheKey :> [fuse |-> NewFuse(data, options),
                             timestamp |-> t + d]) @@ swept,
               t + d, NewFuse(data, options), TRUE, cacheKey, before,
               dropped, FALSE, NewFuse(data, options))

\* createFuzzySearch after the sweep: the lookup, and on a miss the new index
\* stored with the time Date.now() reads then, t + d.
lookupOrBuild(swept, cacheKey, before, dropped, t, d, data, options) ==
  IF cacheKey \in DOMAIN swept
  THEN Outcome(swept, t, swept[cacheKey].fuse, TRUE, cacheKey, before,
               dropped, TRUE, swept[cacheKey].fuse)
  ELSE Outcome((cacheKey :> [fuse |-> NewFuse(data, options),
                             timestamp |-> t + d]) @@ swept,
               t + d, NewFuse(data, options), TRUE, cacheKey, before,
               dropped, FALSE, NewFuse(data, options))

\* createFuzzySearch once the cache is swept.
createSwept(cache, swept, t, d, data, options) ==
  lookupOrBuild(swept, getCacheKey(data, options),
                entriesFor(cache, data, options),
                DOMAIN cache \ DOMAIN swept, t, d, data, options)

\* createFuzzySearch(data, options), entered at time t; d is the time the
\* construction of a new index takes.
createFuzzySearch(cache, t, d, data, options) ==
  createSwept(cache, clearExpiredCache(cache, t), t, d, data, options)

\* options.minMatchCharLength || 1
MinLen(options) ==
  IF options.minMatchCharLength = Undef \/ options.minMatchCharLength = 0
  THEN 1 ELSE options.minMatchCharLength

\* fuse.search(trimmedQuery).map(r => r.item) on the index of outcome c
searchItems(c, trimmedQuery) ==
  [c EXCEPT !.value = Pluck(FuseSearch(c.fuse, trimmedQuery), "item")]

\* results.map(r => ({ item: r.item, score: r.score ?? 0 }))
withScores(results) ==
  [i \in 1..Len(results) |->
     [score |-> results[i].score, item |-> results[i].item]]

\* fuse.search(trimmedQuery).map(r => ({ item, score })) on the index of c
searchScored(c, trimmedQuery) ==
  [c EXCEPT !.value =
     withScores(FuseSearch(c.fuse, trimmedQuery))]

\* Variant of fuzzySearch: a blank query returns nothing.
fuzzySearch_BlankIsEmpty(cache, t, d, data, query, options) ==
  IF Len(Trim(query)) = 0 THEN Untouched(cache, t, <<>>)
  ELSE IF Len(Trim(query)) < MinLen(options) THEN Untouched(cache, t, <<>>)
  ELSE searchItems(createFuzzySearch(cache, t, d, data, options), Trim(query))

\* fuzzySearch(data, query, options)
fuzzySearch(cache, t, d, data, query, options) ==
  IF Len(Trim(query)) = 0 THEN Untouched(cache, t, data)
  ELSE IF Len(Trim(query)) < MinLen(options) THEN Untouched(cache, t, <<>>)
  ELSE searchItems(createFuzzySearch(cache, t, d, data, options), Trim(query))

\* Variant of fuzzySearchWithScores: no minimum query length.
fuzzySearchWithScores_NoMinLength(cache, t, d, data, query, options) ==
  IF Len(Trim(query)) = 0
  THEN Untouched(cache, t,
                 [i \in 1..Len(data) |-> [score |-> 1, item |-> data[i]]])
  ELSE searchScored(createFuzzySearch(cache, t, d, data, options), Trim(query))

\* fuzzySearchWithScores(data, query, options)
fuzzySearchWithScores(cache, t, d, data, query, options) ==
  IF Len(Trim(query)) = 0
  THEN Untouched(cache, t,
                 [i \in 1..Len(data) |-> [score |-> 1, item |-> data[i]]])
  ELSE IF Len(Trim(query)) < MinLen(options) THEN Untouched(cache, t, <<>>)
  ELSE searchScored(createFuzzySearch(cache, t, d, data, options), Trim(query))

\* Variant of isExactMatch: equality only, no prefix match.
isExactMatch_EqualsOnly(item, trimmedQuery, exactMatchKeys) ==
  \E k \in 1..Len(exactMatchKeys) :
    /\ exactMatchKeys[k] \in DOMAIN item
    /\ item[exactMatchKeys[k]] # <<>>
    /\ ToLowerCase(item[exactMatchKeys[k]]) = trimmedQuery

\* The test of hybridSearch's inner loop: some key of exactMatchKeys holds a
\* non-empty string that, lowercased, equals or starts with the query.
isExactMatch(item, trimmedQuery, exactMatchKeys) ==
  \E k \in 1..Len(exactMatchKeys) :
    /\ exactMatchKeys[k] \in DOMAIN item
    /\ exactMatchKeys[k] \in StringFields
    /\ item[exactMatchKeys[k]] # <<>>
    /\ \/ ToLowerCase(item[exactMatchKeys[k]]) = trimmedQuery
       \/ StartsWith(ToLowerCase(item[exactMatchKeys[k]]), trimmedQuery)

\* [...exactMatches, ...fuzzyResults] where fuzzyResults are the items of
\* outcome f that are not among the exact matches.
hybridCombine(exactMatches, f) ==
  [f EXCEPT !.value =
     exactMatches \o SelectSeq(f.value, LAMBDA x : ~Has(exactMatches, x))]

\* hybridSearch once the data is partitioned.
hybridPartitioned(cache, t, d, data, query, options, exactMatches, fuzzyMatches) ==
  IF Len(exactMatches) = 0
  THEN fuzzySearch(cache, t, d, data, query, options)
  ELSE hybridCombine(exactMatches,
                     fuzzySearch(cache, t, d, fuzzyMatches, query, options))

\* hybridSearch(data, query, options, exactMatchKeys)
hybridSearch(cache, t, d, data, query, options, exactMatchKeys) ==
  IF Len(Trim(query)) = 0 THEN Untouched(cache, t, data)
  ELSE hybridPartitioned(cache, t, d, data, query, options,
         SelectSeq(data, LAMBDA x :
           isExactMatch(x, ToLowerCase(Trim(query)), exactMatchKeys)),
         SelectSeq(data, LAMBDA x :
           ~isExactMatch(x, ToLowerCase(Trim(query)), exactMatchKeys)))

----------------------------------------------------------------------------
(* Numbers: decimal fractions n/d with d a power of ten, or NaN. *)

NaN == [n |-> 0, d |-> 1, nan |-> TRUE]

RECURSIVE Num(_, _)
Num(n, d) ==
  IF d > 1 /\ n % 10 = 0 THEN Num(n \div 10, d \div 10)
  ELSE [n |-> n, d |-> d, nan |-> FALSE]

\* a < b and a > b; every comparison with NaN is false.
NumLt(a, b) == ~a.nan /\ ~b.nan /\ a.n * b.d < b.n * a.d
NumGt(a, b) == NumLt(b, a)

\* a + k and a - k for an integer k
NumAdd(a, k) == IF a.nan THEN NaN ELSE Num(a.n + k * a.d, a.d)

\* Sign of a - b as a sort comparator reads it: a NaN difference counts as 0.
NumDiffSign(a, b) ==
  IF NumLt(a, b) THEN -1 ELSE IF NumGt(a, b) THEN 1 ELSE 0

IsDigit(c) == c \in {"0", "1", "2", "3", "4", "5", "6", "7", "8", "9"}

DigitVal(c) ==
  CASE c = "0" -> 0 [] c = "1" -> 1 [] c = "2" -> 2 [] c = "3" -> 3
    [] c = "4" -> 4 [] c = "5" -> 5 [] c = "6" -> 6 [] c = "7" -> 7
    [] c = "8" -> 8 [] c = "9" -> 9

RECURSIVE DigitsValue(_)
DigitsValue(ds) ==
  IF ds = <<>> THEN 0
  ELSE DigitsValue(SubSeq(ds, 1, Len(ds) - 1)) * 10 + DigitVal(ds[Len(ds)])

RECURSIVE Pow10(_)
Pow10(k) == IF k = 0 THEN 1 ELSE 10 * Pow10(k - 1)

\* Length of the longest run of digits of s that starts at position i.
DigitRun(s, i) ==
  LET stop == {j \in i..Len(s) : ~IsDigit(s[j])}
  IN  IF i > Len(s) THEN 0
      ELSE IF stop = {} THEN Len(s) - i + 1
      ELSE (CHOOSE j \in stop : \A k \in stop : j <= k) - i

\* The number written by ni integer digits from position i0 of s and nf
\* fraction digits after the point.
decimalValue(s, neg, i0, ni, nf) ==
  IF ni + nf = 0 THEN NaN
  ELSE Num((IF neg THEN -1 ELSE 1)
           * (DigitsValue(SubSeq(s, i0, i0 + ni - 1)) * Pow10(nf)
              + DigitsValue(SubSeq(s, i0 + ni + 1, i0 + ni + nf))),
           Pow10(nf))

\* parseFloat from the first digit position i0, after white space and sign.
parseDigits(s, neg, i0, ni) ==
  decimalValue(s, neg, i0, ni,
               IF i0 + ni <= Len(s) /\ s[i0 + ni] = "."
               THEN DigitRun(s, i0 + ni + 1) ELSE 0)

\* parseFloat from the first position that holds no white space.
parseSigned(s, start) ==
  IF start <= Len(s) /\ s[start] \in {"-", "+"}
  THEN parseDigits(s, s[start] = "-", start + 1, DigitRun(s, start + 1))
  ELSE parseDigits(s, FALSE, start, DigitRun(s, start))

\* parseFloat: leading white space is skipped, then the longest prefix of the
\* form [+-] digits [. digits] is read; NaN when it holds no digit.  (The
\* exponent and Infinity forms need characters the modelled ranks lack.)
parseFloat(s) ==
  parseSigned(s, IF \A i \in 1..Len(s) : IsSpace(s[i]) THEN Len(s) + 1
                 ELSE CHOOSE i \in 1..Len(s) :
                        /\ ~IsSpace(s[i])
                        /\ \A k \in 1..(i - 1) : IsSpace(s[k]))

----------------------------------------------------------------------------
(* Course ranker. *)

\* The rank codes that stand for "no published rank".
RankCodes == {<<"N", "/", "P">>, <<"L", "/", "N">>, <<"R", "C">>}

\* Variant of classifyNum: the boundaries belong to safe and reach.
classifyNum_InclusiveBounds(rankNum, atar) ==
  IF rankNum.nan THEN [rankNum |-> rankNum, category |-> "unknown"]
  ELSE IF ~NumGt(rankNum, NumAdd(atar, -5))
       THEN [rankNum |-> rankNum, category |-> "safe"]
       ELSE IF ~NumLt(rankNum, NumAdd(atar, 5))
            THEN [rankNum |-> rankNum, category |-> "reach"]
            ELSE [rankNum |-> rankNum, category |-> "target"]

\* The classification of a parsed rank: [category, rankNum]
classifyNum(rankNum, atar) ==
  IF rankNum.nan THEN [rankNum |-> rankNum, category |-> "unknown"]
  ELSE IF NumLt(rankNum, NumAdd(atar, -5))
       THEN [rankNum |-> rankNum, category |-> "safe"]
       ELSE IF NumGt(rankNum, NumAdd(atar, 5))
            THEN [rankNum |-> rankNum, category |-> "reach"]
            ELSE [rankNum |-> rankNum, category |-> "target"]

\* The classification of enrichCourses: [category, rankNum]
classify(rank, atar) ==
  IF rank \in RankCodes
  THEN [rankNum |-> Num(0, 1), category |-> "unknown"]
  ELSE classifyNum(parseFloat(rank), atar)

\* { ...course, category, rankNum, searchText }
enriched(course, c) ==
  [name |-> course.name, rankNum |-> c.rankNum, category |-> c.category,
   rank |-> course.rank, code |-> course.code,
   institution |-> course.institution, campus |-> course.campus,
   searchText |-> course.institution \o <<" ">> \o course.name
                  \o <<" ">> \o course.code]

\* One element of enrichCourses' map.
enrichCourse(course, atar) == enriched(course, classify(course.rank, atar))

\* enrichCourses(courses, atar)
enrichCourses(courses, atar) ==
  [i \in 1..Len(courses) |-> enrichCourse(courses[i], atar)]

\* The words of a search term that count: split on white space, length >= 2.
QualifyingWords(term) == SelectSeq(SplitWs(term), LAMBDA w : Len(w) >= 2)

\* A relevance score that adds up every tier the word matches.
wordScore_Accumulated(course, word) ==
  LET inst == ToLowerCase(course.institution)
      name == ToLowerCase(course.name)
      sum == (IF inst = word THEN 100 ELSE 0)
               + (IF name = word THEN 90 ELSE 0)
               + (IF StartsWith(inst, word) THEN 50 ELSE 0)
               + (IF StartsWith(name, word) THEN 40 ELSE 0)
               + (IF Includes(inst, <<" ">> \o word) THEN 20 ELSE 0)
               + (IF Includes(name, <<" ">> \o word) THEN 15 ELSE 0)
  IN  IF sum = 0 THEN 1 ELSE sum

\* The relevance tier of one word for one course (first matching tier).
wordScore(course, word) ==
  LET inst == ToLowerCase(course.institution)
      name == ToLowerCase(course.name)
  IN  IF inst = word THEN 100
      ELSE IF name = word THEN 90
      ELSE IF StartsWith(inst, word) THEN 50
      ELSE IF StartsWith(name, word) THEN 40
      ELSE IF Includes(inst, <<" ">> \o word) THEN 20
      ELSE IF Includes(name, <<" ">> \o word) THEN 15
      ELSE 1

RECURSIVE SumSeq(_)
SumSeq(s) == IF s = <<>> THEN 0 ELSE s[1] + SumSeq(Tail(s))

\* A filter that keeps the courses holding any one of the words.
wordMatches_AnyWord(courses, words) ==
  SelectSeq(courses, LAMBDA c :
    \E w \in 1..Len(words) : Includes(ToLowerCase(c.searchText), words[w]))

\* The courses whose lowercased searchText contains every word.
wordMatches(courses, words) ==
  SelectSeq(courses, LAMBDA c :
    \A w \in 1..Len(words) : Includes(ToLowerCase(c.searchText), words[w]))

\* matches.map(course => ({ course, score }))
wordScored(matches, words) ==
  [i \in 1..Len(matches) |->
     [score |-> SumSeq([w \in 1..Len(words) |-> wordScore(matches[i], words[w])]),
      course |-> matches[i]]]

\* scored.sort((a, b) => b.score - a.score).map(s => s.course)
wordRanked(scored) ==
  Pluck(StableSort(scored,
          [i \in 1..Len(scored) |-> [j \in 1..Len(scored) |->
             scored[j].score - scored[i].score]]), "course")

\* wordBasedSearch once the matches are filtered.
wordFiltered(matches, words) ==
  IF Len(matches) = 0 THEN <<>> ELSE wordRanked(wordScored(matches, words))

\* wordBasedSearch once the term is split.
wordSplit(courses, words) ==
  IF Len(words) = 0 THEN courses
  ELSE wordFiltered(wordMatches(courses, words), words)

\* wordBasedSearch(courses, searchTerm)
wordBasedSearch(courses, searchTerm) ==
  wordSplit(courses, QualifyingWords(ToLowerCase(searchTerm)))

\* The configuration of searchCourses' fuzzy fallback (weights in tenths,
\* threshold 0.4 in tenths).
CourseFuseOptions ==
  Options(<<Key("searchText", 20), Key("name", 15), Key("institution", 15),
            Key("code", 10)>>, 4, 2)

\* CourseSearchOptions; an absent searchTerm is the empty string, an absent
\* category is "undefined", an absent limit is 0 (each takes the branches of
\* the absent property), and atar already carries its default.
CourseSearchOptions(searchTerm, category, atar, limit) ==
  [atar |-> atar, category |-> category, searchTerm |-> searchTerm,
   limit |-> limit]

\* A comparator that orders the ranks ascending.
rankCompare_Ascending(a, b) ==
  IF a.category = "unknown" /\ b.category # "unknown" THEN 1
  ELSE IF a.category # "unknown" /\ b.category = "unknown" THEN -1
  ELSE NumDiffSign(a.rankNum, b.rankNum)

\* The comparator of searchCourses' rank sort.
rankCompare(a, b) ==
  IF a.category = "unknown" /\ b.category # "unknown" THEN 1
  ELSE IF a.category # "unknown" /\ b.category = "unknown" THEN -1
  ELSE NumDiffSign(b.rankNum, a.rankNum)

\* Apply limit if specified
applyLimit(results, options) ==
  IF options.limit > 0 THEN Slice0(results, options.limit) ELSE results

\* Sort by rank (descending) if not searching
applySort(results, options) ==
  IF Len(options.searchTerm) = 0
  THEN StableSort(results,
         [i \in 1..Len(results) |-> [j \in 1..Len(results) |->
            rankCompare(results[i], results[j])]])
  ELSE results

\* Apply category filter
applyCategory(results, options) ==
  IF options.category \notin {"undefined", "all"}
  THEN SelectSeq(results, LAMBDA x : x.category = options.category)
  ELSE results

\* A tail that cuts to the limit before it filters and sorts.
finishCourses_LimitFirst(c, results, options) ==
  [c EXCEPT !.value =
     applySort(applyCategory(applyLimit(results, options), options), options)]

\* The tail of searchCourses: filter, sort, limit.
finishCourses(c, results, options) ==
  [c EXCEPT !.value =
     applyLimit(applySort(applyCategory(results, options), options), options)]

\* fuse.search(trimmed).map(r => r.item) on the fallback index of outcome c
fuzzyFallback(c, trimmed, options) ==
  finishCourses(c, Pluck(FuseSearch(c.fuse, trimmed), "item"), options)

\* A selection that uses the word-based result whenever it is not empty.
chooseStrategy_AnyMatch(cache, t, d, enrichedCourses, trimmed, wordResult, options) ==
  IF Len(wordResult) > 0
  THEN finishCourses(Untouched(cache, t, <<>>), wordResult, options)
  ELSE fuzzyFallback(
         createFuzzySearch(cache, t, d, enrichedCourses, CourseFuseOptions),
         trimmed, options)

\* Strategy selection of searchCourses.
chooseStrategy(cache, t, d, enrichedCourses, trimmed, wordResult, options) ==
  IF Len(wordResult) > 0
     /\ (Len(QualifyingWords(trimmed)) > 1 \/ Len(wordResult) >= 3)
  THEN finishCourses(Untouched(cache, t, <<>>), wordResult, options)
  ELSE fuzzyFallback(
         createFuzzySearch(cache, t, d, enrichedCourses, CourseFuseOptions),
         trimmed, options)

\* searchCourses once the courses are enriched.
searchEnriched(cache, t, d, enrichedCourses, options) ==
  IF Len(options.searchTerm) > 0 /\ Len(Trim(options.searchTerm)) > 0
  THEN chooseStrategy(cache, t, d, enrichedCourses, Trim(options.searchTerm),
         wordBasedSearch(enrichedCourses, Trim(options.searchTerm)), options)
  ELSE finishCourses(Untouched(cache, t, <<>>), enrichedCourses, options)

\* searchCourses(courses, options)
searchCourses(cache, t, d, courses, options) ==
  searchEnriched(cache, t, d, enrichCourses(courses, options.atar), options)

\* An enrichCourses that annotates the caller's array in place and returns
\* it.
enrichedArray_Callers == "courses"

\* The array enrichCourses returns: courses.map builds a new one, named
\* "enriched" here; "courses" is the caller's array and "new" an array built
\* by a later filter or map.
enrichedArray == "enriched"

\* The array `results` names when searchCourses reaches its sort: the
\* enriched array, unless the category filter or the search step replaced
\* it by a new one.  The search step keeps it only when wordBasedSearch
\* returns its argument, no word qualifying, and that result is used.
resultsArray(courses, options) ==
  IF options.category \notin {"undefined", "all"} THEN "new"
  ELSE IF Len(options.searchTerm) > 0 /\ Len(Trim(options.searchTerm)) > 0
  THEN IF /\ Len(QualifyingWords(ToLowerCase(Trim(options.searchTerm)))) = 0
          /\ Len(courses) >= 3
       THEN enrichedArray ELSE "new"
  ELSE enrichedArray

\* What the caller's array holds after searchCourses: results.sort sorts in
\* place the array `results` names, and nothing else in searchCourses,
\* enrichCourses or wordBasedSearch assigns to an array or to a record.
coursesAfter(courses, options) ==
  IF Len(options.searchTerm) = 0 /\ resultsArray(courses, options) = "courses"
  THEN applySort(enrichCourses(courses, options.atar), options)
  ELSE courses

----------------------------------------------------------------------------
(* Subject search. *)

\* Array.prototype.slice(0, end): a negative end counts back from the end of
\* the array.
Slice(s, end) ==
  SubSeq(s, 1, IF end < 0 THEN (IF Len(s) + end < 0 THEN 0 ELSE Len(s) + end)
               ELSE IF end > Len(s) THEN Len(s) ELSE end)

\* SubjectSearchOptions; aliases are the entries of the object in insertion
\* order (none when the property is absent), and limit already carries its
\* default.
SubjectSearchOptions(query, aliases, limit) ==
  [query |-> query, limit |-> limit, aliases |-> aliases]

\* A loop that stops at the first alias that matches.
RECURSIVE aliasTargetsOf_FirstMatch(_, _)
aliasTargetsOf_FirstMatch(normalisedQuery, aliases) ==
  IF aliases = <<>> THEN <<>>
  ELSE IF \/ normalisedQuery = Head(aliases).alias
          \/ StartsWith(normalisedQuery, Head(aliases).alias \o <<" ">>)
       THEN Head(aliases).targets
       ELSE aliasTargetsOf_FirstMatch(normalisedQuery, Tail(aliases))

\* The loop of normaliseSubjectQuery over Object.entries(aliases).
RECURSIVE aliasTargetsOf(_, _)
aliasTargetsOf(normalisedQuery, aliases) ==
  IF aliases = <<>> THEN <<>>
  ELSE (IF \/ normalisedQuery = Head(aliases).alias
           \/ StartsWith(normalisedQuery, Head(aliases).alias \o <<" ">>)
        THEN Head(aliases).targets ELSE <<>>)
       \o aliasTargetsOf(normalisedQuery, Tail(aliases))

\* normaliseSubjectQuery(query, aliases)
normaliseSubjectQuery(query, aliases) ==
  [query |-> ToLowerCase(Trim(query)),
   aliasTargets |-> aliasTargetsOf(ToLowerCase(Trim(query)), aliases)]

\* { ...s, searchText: `${s.name} ${s.code}` }
enrichSubject(s) ==
  [name |-> s.name, code |-> s.code,
   searchText |-> s.name \o <<" ">> \o s.code]

\* The priority searchSubjects computes for one subject.
priority(subject, n) ==
  LET nameLower == ToLowerCase(subject.name)
      codeLower == ToLowerCase(subject.code)
      targets == n.aliasTargets
  IN  100 * Cardinality({i \in 1..Len(targets) :
                           nameLower = ToLowerCase(targets[i])})
      + 50 * Cardinality({i \in 1..Len(targets) :
                            StartsWith(nameLower, ToLowerCase(targets[i]))})
      + (IF nameLower = n.query THEN 80 ELSE 0)
      + (IF StartsWith(nameLower, n.query) THEN 40 ELSE 0)
      + (IF codeLower = n.query THEN 70 ELSE 0)
      + (IF StartsWith(codeLower, n.query) THEN 30 ELSE 0)

\* enriched.map(subject => ({ subject, priority }))
scoredSubjects(subjects, n) ==
  [i \in 1..Len(subjects) |->
     [priority |-> priority(enrichSubject(subjects[i]), n),
      subject |-> enrichSubject(subjects[i])]]

\* scored.filter(s => s.priority > 0).sort((a, b) => b.priority - a.priority)
highPriority(scored) ==
  LET high == SelectSeq(scored, LAMBDA s : s.priority > 0)
  IN  StableSort(high, [i \in 1..Len(high) |-> [j \in 1..Len(high) |->
                          high[j].priority - high[i].priority]])

\* score || 1, in hundredths: a score of 0 counts as 1.
ScoreOrOne(score) == IF score = 0 THEN 100 ELSE score

\* The configuration of searchSubjects' index (weights and threshold 0.3 in
\* tenths).
SubjectFuseOptions == Options(<<Key("name", 20), Key("code", 10)>>, 3, 2)

\* .sort((a, b) => (a.score || 1) - (b.score || 1)).map(r => r.item)
sortedFuzzy(hits) ==
  Pluck(StableSort(hits, [i \in 1..Len(hits) |-> [j \in 1..Len(hits) |->
          ScoreOrOne(hits[i].score) - ScoreOrOne(hits[j].score)]]), "item")

\* fuzzyResults on the index of outcome c
fuzzyResults(c, normalisedQuery) ==
  [c EXCEPT !.value = sortedFuzzy(withScores(FuseSearch(c.fuse, normalisedQuery)))]

\* The fuzzy tier: the low-priority subjects searched through an index.
searchLow(cache, t, d, low, normalisedQuery) ==
  IF Len(low) > 0
  THEN fuzzyResults(createFuzzySearch(cache, t, d, Pluck(low, "subject"),
                                      SubjectFuseOptions), normalisedQuery)
  ELSE Untouched(cache, t, <<>>)

\* [...highPriority.map(s => s.subject), ...fuzzyResults].slice(0, limit)
combineSubjects(high, f, limit) ==
  [f EXCEPT !.value = Slice(Pluck(high, "subject") \o f.value, limit)]

\* searchSubjects once the subjects are scored: the subjects of priority
\* > 0, sorted, and those of priority 0, searched.
searchScoredSubjects(cache, t, d, scored, normalisedQuery, limit) ==
  combineSubjects(highPriority(scored),
                  searchLow(cache, t, d,
                            SelectSeq(scored, LAMBDA s : s.priority = 0),
                            normalisedQuery),
                  limit)

\* searchSubjects(subjects, options)
searchSubjects(cache, t, d, subjects, options) ==
  IF Len(options.query) = 0 \/ Len(Trim(options.query)) = 0
  THEN Untouched(cache, t, Slice(subjects, options.limit))
  ELSE searchScoredSubjects(cache, t, d,
         scoredSubjects(subjects,
                        normaliseSubjectQuery(options.query, options.aliases)),
         ToLowerCase(Trim(options.query)), options.limit)

----------------------------------------------------------------------------
(* Student search. *)

\* s.split(/[...]+/).filter(w => w.length > 0) for the separator characters
\* seps: the maximal runs of characters that are not separators.
RECURSIVE WordsOf(_, _)
WordsOf(s, seps) ==
  LET sp == {i \in 1..Len(s) : s[i] \in seps}
      first == IF sp = {} THEN Len(s) + 1
               ELSE CHOOSE x \in sp : \A y \in sp : x <= y
  IN  IF s = <<>> THEN <<>>
      ELSE IF first = 1 THEN WordsOf(Tail(s), seps)
      ELSE <<SubSeq(s, 1, first - 1)>> \o WordsOf(SubSeq(s, first, Len(s)), seps)

\* Student; subjects is the sequence of { subject, score }, and an absent
\* year is Undef.
Student(name, school, subjects, year) ==
  [name |-> name, subjects |-> subjects, school |-> school, year |-> year]

\* Variant of studentMatchesQuery without the multi-word match.
studentMatchesQuery_DirectOnly(student, query) ==
  \/ Includes(ToLowerCase(student.name), ToLowerCase(query))
  \/ Includes(ToLowerCase(student.school), ToLowerCase(query))
  \/ \E i \in 1..Len(student.subjects) :
       Includes(ToLowerCase(student.subjects[i].subject), ToLowerCase(query))

\* studentMatchesQuery(student, query)
studentMatchesQuery(student, query) ==
  LET nameLower == ToLowerCase(student.name)
      schoolLower == ToLowerCase(student.school)
      queryLower == ToLowerCase(query)
      queryWords == WordsOf(queryLower, {" "})
      nameWords == WordsOf(nameLower, {" ", ","})
      schoolWords == WordsOf(schoolLower, {" ", ","})
  IN  IF Includes(nameLower, queryLower) \/ Includes(schoolLower, queryLower)
      THEN TRUE
      ELSE IF \E i \in 1..Len(student.subjects) :
                Includes(ToLowerCase(student.subjects[i].subject), queryLower)
      THEN TRUE
      ELSE IF Len(queryWords) > 1
      THEN \A q \in 1..Len(queryWords) :
             \/ \E w \in 1..Len(nameWords) :
                  Includes(nameWords[w], queryWords[q])
             \/ \E w \in 1..Len(schoolWords) :
                  Includes(schoolWords[w], queryWords[q])
             \/ \E i \in 1..Len(student.subjects) :
                  Includes(ToLowerCase(student.subjects[i].subject),
                           queryWords[q])
      ELSE FALSE

\* year || 0
yearOrZero(year) == IF year = Undef THEN 0 ELSE year

\* String.prototype.localeCompare on names written in lowercase letters:
\* the order of the alphabet, a proper prefix first.
RECURSIVE localeCompare(_, _)
localeCompare(a, b) ==
  LET rank(c) == CHOOSE i \in 1..3 : <<"a", "b", "c">>[i] = c
  IN  IF a = <<>> /\ b = <<>> THEN 0
      ELSE IF a = <<>> THEN -1
      ELSE IF b = <<>> THEN 1
      ELSE IF Head(a) = Head(b) THEN localeCompare(Tail(a), Tail(b))
      ELSE IF rank(Head(a)) < rank(Head(b)) THEN -1 ELSE 1

\* The comparator of sortStudents.
compareStudents(a, b) ==
  IF b.year # a.year THEN yearOrZero(b.year) - yearOrZero(a.year)
  ELSE localeCompare(a.name, b.name)

\* Is the comparator, given as the matrix of its values over an array, a
\* consistent one: antisymmetric, with "equal" and "before" transitive.
Consistent(cmp) ==
  \A i, j, k \in DOMAIN cmp :
    /\ (cmp[i][j] < 0) <=> (cmp[j][i] > 0)
    /\ (cmp[i][j] = 0 /\ cmp[j][k] = 0) => cmp[i][k] = 0
    /\ (cmp[i][j] < 0 /\ cmp[j][k] < 0) => cmp[i][k] < 0
    /\ (cmp[i][j] < 0 /\ cmp[j][k] = 0) => cmp[i][k] < 0
    /\ (cmp[i][j] = 0 /\ cmp[j][k] < 0) => cmp[i][k] < 0

\* The orders Array.prototype.sort may leave an array in: the stable order
\* under a consistent comparator, and any order of the same elements under
\* an inconsistent one, where the order is implementation-defined.
sortOrders(s, cmp) ==
  IF Consistent(cmp) THEN {StableSort(s, cmp)}
  ELSE {[i \in 1..Len(s) |-> s[f[i]]] :
          f \in {g \in [1..Len(s) -> 1..Len(s)] :
                   \A i, j \in 1..Len(s) : g[i] = g[j] => i = j}}

\* sortStudents(students): the orders the array may be left in.
sortStudents(students) ==
  sortOrders(students,
             [i \in 1..Len(students) |-> [j \in 1..Len(students) |->
                compareStudents(students[i], students[j])]])

----------------------------------------------------------------------------
(* The inputs the callers draw from. *)

\* Records of a generic collection (subjects: name and code).
ItemA == [name |-> <<"A", "b">>, code |-> <<"x">>]
ItemB == [name |-> <<"a", "c">>, code |-> <<"y">>]
ItemC == [name |-> <<"b", "c">>, code |-> <<"a", "b">>]

Collections == {<<ItemA>>, <<ItemC>>, <<ItemA, ItemB>>, <<ItemC, ItemB>>}

Queries == {<<>>, <<" ">>, <<"a">>, <<" ", "A", "b">>}

\* keys: ['name'], minMatchCharLength: 2
OptionsName == Options(<<Key("name", Undef)>>, Undef, 2)

\* keys: name (weight 2) and code (weight 1), threshold: 0.5
OptionsNameCode == Options(<<Key("name", 20), Key("code", 10)>>, 5, Undef)

OptionSets == {OptionsName, OptionsNameCode}

ExactKeySets == {<<>>, <<"name">>}

\* The collections and configurations of the search calls.
SearchCollections == {<<ItemA, ItemB>>, <<ItemC, ItemB>>}

SearchOptionSets == {Options(<<Key("name", 20), Key("code", 10)>>, 5, 2)}

Course(code, name, rank, institution) ==
  [name |-> name, rank |-> rank, code |-> code, institution |-> institution,
   campus |-> <<"c">>]

CourseA == Course(<<"1">>, <<"M", "e">>, <<"9", "5">>, <<"M", "o">>)
CourseB == Course(<<"2">>, <<"l", "a">>, <<"8", "5">>, <<"M", "o">>)
CourseC == Course(<<"3">>, <<"m", "e">>, <<"N", "/", "P">>, <<"u", "n">>)
CourseD == Course(<<"4">>, <<"a", "r">>, <<"x">>, <<"m", "o">>)

CourseLists == {<<CourseA>>, <<CourseB>>, <<CourseC, CourseD>>}

Atars == {Num(90, 1), Num(80, 1)}

SearchTerms == {<<>>, <<"m", "o">>, <<"m", "o", " ", "a", "r">>}

Categories == {"undefined", "all", "target"}

Limits == {0, 1}

\* The ranks of the courses handed to enrichCourses on its own: numbers on
\* and around the class boundaries, the three rank codes, and a string that
\* holds no number.
Ranks ==
  {<<"8", "4", ".", "9">>, <<"8", "5">>, <<"9", "5">>, <<"9", "5", ".", "1">>,
   <<"N", "/", "P">>, <<"L", "/", "N">>, <<"R", "C">>, <<"x">>}

RankedCourses == {Course(<<"1">>, <<"M", "e">>, r, <<"M", "o">>) : r \in Ranks}

EnrichLists == UNION {[1..n -> RankedCourses] : n \in 1..MaxCourses}

EnrichAtars == {Num(899, 10), Num(90, 1)}

\* Subject
Subject(name, code) == [name |-> name, code |-> code]

\* The students handed to sortStudents: one without a year, two of year 0
\* and one of year 1.
SortStudents ==
  {Student(<<"b">>, <<"c">>, <<>>, Undef), Student(<<"a">>, <<"c">>, <<>>, 0),
   Student(<<"c">>, <<"c">>, <<>>, 0), Student(<<"a">>, <<"c">>, <<>>, 1)}


\* Date.now() advances by these amounts between calls.
TickSteps == {1, CACHE_TTL}

\* Time the construction of an index takes.
BuildTimes == {0, 1}

----------------------------------------------------------------------------
(* The state machine: the clock, the cache, and the last call with what it *)
(* returned and the entry it found under its key.                          *)

NoCall == [op |-> "none"]

\* What the last call returned and did, and the time it was entered.
Returned(o, t) ==
  [value |-> o.value, lookup |-> o.lookup, key |-> o.key,
   dropped |-> o.dropped, hit |-> o.hit, at |-> t]

Init ==
  /\ now = 0
  /\ ticks = 0
  /\ searchCache = EmptyCache
  /\ call = NoCall
  /\ ret = Returned(Untouched(EmptyCache, 0, <<>>), 0)
  /\ pre = {}
  /\ inflight = [p \in 1..2 |-> [data |-> <<>>, fuse |-> NoFuse, pc |-> "idle",
                                builtAt |-> Undef, preempted |-> FALSE]]

\* The state after call c with the given outcome.
Return(outcome, c) ==
  \E o \in {outcome} :
    /\ o.now - now <= MaxTicks - ticks
    /\ now' = o.now
    /\ ticks' = ticks + (o.now - now)
    /\ searchCache' = o.cache
    /\ call' = c
    /\ ret' = Returned(o, now)
    /\ pre' = o.before
    /\ UNCHANGED inflight

Tick ==
  \E step \in TickSteps :
    /\ ticks < MaxTicks
    /\ now' = now + step
    /\ ticks' = ticks + 1
    /\ UNCHANGED <<searchCache, call, ret, pre, inflight>>

\* clearSearchCache()
ClearSearchCache ==
  /\ searchCache # EmptyCache
  /\ searchCache' = EmptyCache
  /\ call' = [op |-> "clearSearchCache"]
  /\ ret' = Returned(Untouched(EmptyCache, now, <<>>), now)
  /\ pre' = {}
  /\ UNCHANGED <<now, ticks, inflight>>

CallCreateFuzzySearch ==
  \E data \in Collections, options \in OptionSets, d \in BuildTimes :
    Return(createFuzzySearch(searchCache, now, d, data, options),
           [data |-> data, options |-> options, op |-> "createFuzzySearch"])

CallFuzzySearch ==
  \E data \in SearchCollections, query \in Queries, options \in SearchOptionSets :
    Return(fuzzySearch(searchCache, now, 0, data, query, options),
           [data |-> data, options |-> options, query |-> query,
            op |-> "fuzzySearch", after |-> data])

CallFuzzySearchWithScores ==
  \E data \in SearchCollections, query \in Queries, options \in SearchOptionSets :
    Return(fuzzySearchWithScores(searchCache, now, 0, data, query, options),
           [data |-> data, options |-> options, query |-> query,
            op |-> "fuzzySearchWithScores"])

CallHybridSearch ==
  \E data \in SearchCollections, query \in Queries, options \in SearchOptionSets,
     keys \in ExactKeySets :
    Return(hybridSearch(searchCache, now, 0, data, query, options, keys),
           [data |-> data, options |-> options, query |-> query,
            exactMatchKeys |-> keys, op |-> "hybridSearch", after |-> data])

\* searchCourses(courses, { searchTerm, category, atar, limit })
SearchCoursesCall(lists, terms, categories, atars, limits) ==
  \E courses \in lists, term \in terms, cat \in categories,
     atar \in atars, limit \in limits :
    Return(searchCourses(searchCache, now, 0, courses,
                         CourseSearchOptions(term, cat, atar, limit)),
           [data |-> courses,
            options |-> CourseSearchOptions(term, cat, atar, limit),
            op |-> "searchCourses",
            after |-> coursesAfter(courses,
                        CourseSearchOptions(term, cat, atar, limit))])

CallSearchCourses ==
  SearchCoursesCall(CourseLists, SearchTerms, {"undefined", "target"}, Atars,
                    {0})

\* searchCourses called with no search term (absent or blank).
CallSearchCoursesNoTerm ==
  SearchCoursesCall({<<CourseC, CourseD>>}, {<<>>, <<" ">>},
                    Categories, {Num(90, 1)}, Limits)

\* enrichCourses(courses, atar)
CallEnrichCourses ==
  \E courses \in EnrichLists, atar \in EnrichAtars :
    Return(Untouched(searchCache, now, enrichCourses(courses, atar)),
           [data |-> courses, atar |-> atar, op |-> "enrichCourses"])

\* The match cache under createFuzzySearch.
Next ==
  \/ Tick
  \/ ClearSearchCache
  \/ CallCreateFuzzySearch

Spec == Init /\ [][Next]_vars

\* The generic searches over the cache.
NextSearch ==
  \/ Tick
  \/ ClearSearchCache
  \/ CallFuzzySearch
  \/ CallFuzzySearchWithScores
  \/ CallHybridSearch
  \/ CallSearchCoursesNoTerm

SpecSearch == Init /\ [][NextSearch]_vars

\* The course search over the cache.
NextCourses ==
  \/ Tick
  \/ ClearSearchCache
  \/ CallSearchCourses

SpecCourses == Init /\ [][NextCourses]_vars

\* The course classifier on its own.
NextEnrich == CallEnrichCourses

SpecEnrich == Init /\ [][NextEnrich]_vars

\* searchCourses called on lists of one, two and three courses with no term,
\* a term with no qualifying word, a term of one word and terms of two
\* words, and a limit that is negative, absent or 1.
CallSearchCoursesTerm ==
  SearchCoursesCall(
    {<<CourseB>>, <<CourseA, CourseB>>, <<CourseC, CourseB, CourseA>>,
     <<CourseD, CourseB, CourseA>>},
    {<<>>, <<"a">>, <<"m", "o">>, <<"M", "o", " ", "m", "e">>,
     <<"z", "z", " ", "m", "o">>},
    {"undefined", "target"}, {Num(90, 1)}, {-1, 0, 1})

\* The course search by term over the cache, the clock standing still.
NextTerms ==
  \/ ClearSearchCache
  \/ CallSearchCoursesTerm

SpecTerms == Init /\ [][NextTerms]_vars

\* searchSubjects(subjects, { query, aliases, limit }); queries holds the
\* pairs { query, aliases }.
SearchSubjectsCall(lists, queries, limits) ==
  \E subjects \in lists, q \in queries, limit \in limits :
    Return(searchSubjects(searchCache, now, 0, subjects,
                          SubjectSearchOptions(q.query, q.aliases, limit)),
           [data |-> subjects,
            options |-> SubjectSearchOptions(q.query, q.aliases, limit),
            op |-> "searchSubjects", after |-> subjects])

\* searchSubjects called on lists of one, two and three subjects with no
\* query, the queries "ab" and "b" without aliases and the alias "m" of the
\* subject named "Abc", and a limit that is negative, 1 or the default.
\* Under "ab" the subject Ab/c matches by name, Abc/b and Abb/c by the start
\* of the name, Ac/AB by code and Bab/d only through the index; Cm/e holds
\* the alias inside its name.
CallSearchSubjects ==
  SearchSubjectsCall(
    {<<Subject(<<"A", "b">>, <<"c">>)>>,
     <<Subject(<<"A", "c">>, <<"A", "B">>), Subject(<<"B", "a", "b">>, <<"d">>)>>,
     <<Subject(<<"C", "m">>, <<"e">>), Subject(<<"A", "b", "c">>, <<"b">>)>>,
     <<Subject(<<"B", "a", "b">>, <<"d">>), Subject(<<"A", "b", "c">>, <<"b">>),
       Subject(<<"A", "b">>, <<"c">>)>>,
     <<Subject(<<"A", "b", "c">>, <<"b">>), Subject(<<"A", "c">>, <<"A", "B">>),
       Subject(<<"A", "b", "b">>, <<"c">>)>>},
    {[query |-> <<>>, aliases |-> <<>>],
     [query |-> <<"a", "b">>, aliases |-> <<>>],
     [query |-> <<"b">>, aliases |-> <<>>],
     [query |-> <<" ", "M", " ">>,
      aliases |-> <<[alias |-> <<"m">>, targets |-> <<<<"A", "b", "c">>>>]>>]},
    {-1, 1, 50})

\* The subject search over the cache, the clock standing still.
NextSubjects ==
  \/ ClearSearchCache
  \/ CallSearchSubjects

SpecSubjects == Init /\ [][NextSubjects]_vars

\* studentMatchesQuery(student, query), for names of two words separated by
\* a space, by a comma or by two spaces and a name of one word.
CallStudentMatchesQuery ==
  \E student \in
       {Student(name, school, subjects, Undef) :
          name \in {<<"A", " ", "b">>, <<"b", ",", "A">>,
                    <<"A", " ", " ", "b">>, <<"a", "b">>},
          school \in {<<"c">>, <<"b", " ", "M">>},
          subjects \in {<<>>, <<[score |-> 1, subject |-> <<"N", "m">>]>>}},
     query \in
       {<<>>, <<"a">>, <<"b", " ", "a">>, <<"A", " ", "B">>, <<"m", " ", "b">>,
        <<"b", " ", "m", " ", "n">>, <<"a", " ", "x">>, <<" ", "a">>,
        <<"c", " ", " ", "n", "m">>} :
    Return(Untouched(searchCache, now, studentMatchesQuery(student, query)),
           [data |-> student, query |-> query, op |-> "studentMatchesQuery"])

\* sortStudents(students): the array is sorted in place and returned, so
\* what the caller's array holds afterwards is the returned order.
CallSortStudents ==
  \E students \in UNION {[1..n -> SortStudents] : n \in 1..MaxStudents} :
    \E sorted \in sortStudents(students) :
      Return(Untouched(searchCache, now, sorted),
             [data |-> students, op |-> "sortStudents", after |-> sorted,
              same |-> TRUE])

\* The student matcher and the student sort.
NextStudents ==
  \/ CallStudentMatchesQuery
  \/ CallSortStudents

SpecStudents == Init /\ [][NextStudents]_vars

\* The four searches together, the clock standing still: the generic
\* searches, searchCourses on three courses with and without a term, and
\* searchSubjects on three subjects with and without a query.
NextFrame ==
  \/ CallFuzzySearch
  \/ CallHybridSearch
  \/ SearchCoursesCall({<<CourseC, CourseB, CourseA>>},
                       {<<>>, <<"a">>, <<"m", "o">>}, {"undefined", "target"},
                       {Num(90, 1)}, {0, 1})
  \/ SearchSubjectsCall(
       {<<Subject(<<"B", "a", "b">>, <<"d">>), Subject(<<"A", "b", "c">>, <<"b">>),
          Subject(<<"A", "b">>, <<"c">>)>>},
       {[query |-> <<>>, aliases |-> <<>>],
        [query |-> <<"a", "b">>, aliases |-> <<>>]},
       {1, 50})

SpecFrame == Init /\ [][NextFrame]_vars

\* Eight courses that hold the word "ab" in each relevance tier: institution
\* "ab" (1), name "ab" under institution "abc" (2), both "ab" (3), name "abc"
\* under institution "c ab" (4), name "c ab" (5), name "cab" (6), institution
\* "c ab" (7), institution "abc" (8).
WordCourses ==
  <<Course(<<"1">>, <<"c">>, <<"9">>, <<"a", "b">>),
    Course(<<"2">>, <<"a", "b">>, <<"9">>, <<"a", "b", "c">>),
    Course(<<"3">>, <<"a", "b">>, <<"9">>, <<"A", "b">>),
    Course(<<"4">>, <<"a", "b", "c">>, <<"9">>, <<"c", " ", "a", "b">>),
    Course(<<"5">>, <<"c", " ", "a", "b">>, <<"9">>, <<"c">>),
    Course(<<"6">>, <<"c", "a", "b">>, <<"9">>, <<"c">>),
    Course(<<"7">>, <<"c">>, <<"9">>, <<"c", " ", "A", "B">>),
    Course(<<"8">>, <<"c">>, <<"9">>, <<"a", "b", "c">>)>>

\* searchCourses by one word on three of the eight courses, listed in
\* ascending or descending order of code, and by two words on the courses
\* that hold both and on three that do not.
NextWords ==
  \/ ClearSearchCache
  \/ SearchCoursesCall(
       {<<WordCourses[x[1]], WordCourses[x[2]], WordCourses[x[3]]>> :
          x \in {y \in (1..8) \X (1..8) \X (1..8) :
                   \/ y[1] < y[2] /\ y[2] < y[3]
                   \/ y[1] > y[2] /\ y[2] > y[3]}},
       {<<"a", "b">>}, {"undefined"}, {Num(90, 1)}, {0})
  \/ SearchCoursesCall(
       {<<WordCourses[x[1]], WordCourses[x[2]], WordCourses[x[3]]>> :
          x \in {<<2, 4, 8>>, <<4, 8, 2>>, <<8, 4, 2>>, <<4, 2, 8>>,
                 <<1, 2, 4>>, <<1, 5, 6>>}},
       {<<"A", "B", " ", "a", "b", "c">>}, {"undefined"}, {Num(90, 1)}, {0})

SpecWords == Init /\ [][NextWords]_vars

\* normaliseSubjectQuery(query, aliases) on up to three of five aliases with
\* distinct keys, in every order: the keys "m", "m x", "mx" and "M", one
\* target list with a repeated name and two lists that share a name.
CallNormaliseSubjectQuery ==
  \E query \in {<<>>, <<"m">>, <<" ", "M", " ">>, <<"M", " ", "x">>,
                 <<"m", "x">>, <<"m", " ", "x", " ", "a">>, <<"a", "b">>},
     aliases \in
       LET E == {[alias |-> <<"m">>, targets |-> <<<<"A", "b">>>>],
                 [alias |-> <<"m", " ", "x">>,
                  targets |-> <<<<"A", "b">>, <<"c">>>>],
                 [alias |-> <<"m", "x">>, targets |-> <<<<"c">>, <<"c">>>>],
                 [alias |-> <<"M">>, targets |-> <<<<"b">>>>]}
       IN  {s \in UNION {[1..n -> E] : n \in 0..3} :
              \A i, j \in 1..Len(s) : i # j => s[i] # s[j]} :
    Return(Untouched(searchCache, now, normaliseSubjectQuery(query, aliases)),
           [data |-> aliases, query |-> query, op |-> "normaliseSubjectQuery"])

\* The query normaliser on its own.
NextAliases == CallNormaliseSubjectQuery

SpecAliases == Init /\ [][NextAliases]_vars

\* searchSubjects by the four-letter query "abcd" on lists of subjects that
\* hold it inside the name (xabcd), hold it with one letter changed (xabcx,
\* xabxd), start with it (abcdx) or do not hold it (zzzz).
NextFuzzyTier ==
  \/ ClearSearchCache
  \/ SearchSubjectsCall(
       {<<Subject(<<"x", "a", "b", "c", "d">>, <<"1">>)>>,
        <<Subject(<<"x", "a", "b", "c", "d">>, <<"1">>),
          Subject(<<"x", "a", "b", "c", "x">>, <<"2">>)>>,
        <<Subject(<<"x", "a", "b", "c", "x">>, <<"2">>),
          Subject(<<"x", "a", "b", "c", "d">>, <<"1">>)>>,
        <<Subject(<<"x", "a", "b", "x", "d">>, <<"3">>),
          Subject(<<"x", "a", "b", "c", "x">>, <<"2">>)>>,
        <<Subject(<<"x", "a", "b", "c", "x">>, <<"2">>),
          Subject(<<"a", "b", "c", "d", "x">>, <<"4">>),
          Subject(<<"x", "a", "b", "x", "d">>, <<"3">>)>>,
        <<Subject(<<"z", "z", "z", "z">>, <<"5">>),
          Subject(<<"x", "a", "b", "c", "x">>, <<"2">>),
          Subject(<<"X", "A", "B", "C", "d">>, <<"6">>)>>},
       {[query |-> <<>>, aliases |-> <<>>],
        [query |-> <<"a", "b", "c", "d">>, aliases |-> <<>>],
        [query |-> <<" ", "A", "B", "C", "d">>, aliases |-> <<>>]},
       {1, 50})

SpecFuzzyTier == Init /\ [][NextFuzzyTier]_vars

\* Two callers inside createFuzzySearch at once, each at its own statement.
\* inflight[p] is caller p's position (idle, swept: after clearExpiredCache,
\* miss: after a lookup that found nothing, done: returned), its data, the
\* index it returned, the time it last stored an index, and whether another
\* caller took a step during its current call.  A step of caller p leaves p
\* at next and marks every caller it finds inside a call as preempted.
Step(p, next) ==
  [q \in 1..2 |->
     IF q = p THEN next
     ELSE IF inflight[q].pc \in {"swept", "miss"}
          THEN [inflight[q] EXCEPT !.preempted = TRUE]
          ELSE inflight[q]]

\* clearExpiredCache(), the first statement of createFuzzySearch(data,
\* OptionsName) for a collection of one item.
Enter(p) ==
  /\ inflight[p].pc \in {"idle", "done"}
  /\ \E data \in {<<ItemA>>, <<ItemC>>} :
       inflight' = Step(p, [data |-> data, fuse |-> NoFuse, pc |-> "swept",
                            builtAt |-> inflight[p].builtAt,
                            preempted |-> \E q \in 1..2 :
                                            /\ q # p
                                            /\ inflight[q].pc \in {"swept", "miss"}])
  /\ searchCache' = clearExpiredCache(searchCache, now)
  /\ UNCHANGED <<now, ticks, call, ret, pre>>

\* A lookup that never finds the entry.
Lookup_AlwaysMiss(p) ==
  /\ inflight[p].pc = "swept"
  /\ inflight' = Step(p, [inflight[p] EXCEPT !.pc = "miss"])
  /\ UNCHANGED <<now, ticks, searchCache, call, ret, pre>>

\* searchCache.get(cacheKey), and the return of the cached index on a hit.
Lookup(p) ==
  /\ inflight[p].pc = "swept"
  /\ inflight' =
       Step(p, IF getCacheKey(inflight[p].data, OptionsName) \in DOMAIN searchCache
               THEN [inflight[p] EXCEPT
                       !.pc = "done",
                       !.fuse = searchCache[getCacheKey(inflight[p].data,
                                                        OptionsName)].fuse]
               ELSE [inflight[p] EXCEPT !.pc = "miss"])
  /\ UNCHANGED <<now, ticks, searchCache, call, ret, pre>>

\* new Fuse(...), searchCache.set(cacheKey, { fuse, timestamp: Date.now() })
\* and the return of the new index.
Insert(p) ==
  /\ inflight[p].pc = "miss"
  /\ searchCache' =
       (getCacheKey(inflight[p].data, OptionsName)
          :> [fuse |-> NewFuse(inflight[p].data, OptionsName),
              timestamp |-> now]) @@ searchCache
  /\ inflight' = Step(p, [inflight[p] EXCEPT
                            !.pc = "done",
                            !.fuse = NewFuse(inflight[p].data, OptionsName),
                            !.builtAt = now])
  /\ UNCHANGED <<now, ticks, call, ret, pre>>

\* The statements of two createFuzzySearch calls in any interleaving, the
\* clock advancing between them.
NextInterleaved ==
  \/ Tick
  \/ \E p \in 1..2 : Enter(p)
  \/ \E p \in 1..2 : Lookup(p)
  \/ \E p \in 1..2 : Insert(p)

SpecInterleaved == Init /\ [][NextInterleaved]_vars

----------------------------------------------------------------------------
(* Claims about the match cache (specification Spec). *)

\* C1: a createFuzzySearch call that finds in the cache an entry built for a
\* collection of the same length under the identical configuration, less
\* than the TTL ago, is a cache hit: it returns the index of that entry,
\* whatever the content of its own collection, and builds no new index (the
\* entry under its key is still that entry).
C1_EqualLengthIsHit ==
  call.op = "createFuzzySearch"
    => \A e \in pre :
         ret.at - e.timestamp < CACHE_TTL
           => /\ ret.hit
              /\ ret.value = e.fuse
              /\ searchCache[ret.key] = e

\* A hit, some time after the entry was built, that returns an index built
\* over a collection with a different content.
C1_Witness ==
  /\ call.op = "createFuzzySearch"
  /\ ret.hit
  /\ ret.value.docs # call.data
  /\ Len(ret.value.docs) = Len(call.data)
  /\ \E e \in pre : ret.at > e.timestamp /\ ret.at - e.timestamp < CACHE_TTL

\* C2 as stated: an index is reused only while now - timestamp < TTL.
C2_ReusedOnlyBelowTTL ==
  (call.op = "createFuzzySearch" /\ ret.hit)
    => \E e \in pre : ret.value = e.fuse /\ ret.at - e.timestamp < CACHE_TTL

\* C2, amended: createFuzzySearch returns a cached index only if
\* now - timestamp <= TTL for that entry at the time of the call (an entry
\* of age exactly TTL is still reused); an entry older than the TTL is never
\* reused: the call builds a new index over its own collection.
C2_ReusedOnlyWithinTTL ==
  call.op = "createFuzzySearch"
    => /\ ret.hit =>
            \E e \in pre :
              ret.value = e.fuse /\ ret.at - e.timestamp <= CACHE_TTL
       /\ (\E e \in pre : ret.at - e.timestamp > CACHE_TTL)
            => /\ ~ret.hit
               /\ ret.value = NewFuse(call.data, call.options)

\* An entry reused at the age of exactly the TTL.
C2_Witness ==
  /\ call.op = "createFuzzySearch"
  /\ ret.hit
  /\ \E e \in pre : ret.value = e.fuse /\ ret.at - e.timestamp = CACHE_TTL

\* C3: after a createFuzzySearch call no entry that was older than the TTL
\* when the call read the clock remains under any key, and an expired entry
\* under the requested key is deleted before the lookup: the call misses and
\* stores a new entry.
C3_SweepsWholeCache ==
  call.op = "createFuzzySearch"
    => /\ \A k \in DOMAIN searchCache :
            ret.at - searchCache[k].timestamp <= CACHE_TTL
       /\ (\E e \in pre : ret.at - e.timestamp > CACHE_TTL)
            => /\ ~ret.hit
               /\ ret.key \in ret.dropped
               /\ ret.key \in DOMAIN searchCache
               /\ searchCache[ret.key].timestamp >= ret.at

\* A call whose sweep deleted the expired entry of another key than its own.
C3_Witness ==
  /\ call.op = "createFuzzySearch"
  /\ \E k \in ret.dropped : k # ret.key
  /\ now = ret.at

----------------------------------------------------------------------------
(* Claims about the course search (specification SpecCourses). *)

\* C4: every course a searchCourses call returns is the enrichment of a course
\* of that call's own input list, with the category and rankNum that the
\* classification gives for that call's atar, whatever calls came before.
C4_ResultsAreOwnEnrichments ==
  call.op = "searchCourses"
    => \A i \in 1..Len(ret.value) :
         Has(enrichCourses(call.data, call.options.atar), ret.value[i])

\* C5: a searchCourses call repeated with unchanged inputs, whatever the state
\* of the cache and the time elapsed between the two calls, returns the same
\* ordered output.
C5_SameCallSameOutput ==
  [][(call'.op = "searchCourses" /\ call' = call) => ret'.value = ret.value]_vars

----------------------------------------------------------------------------
(* Claims about the generic searches (specification SpecSearch). *)

\* C6: for an empty or whitespace-only query fuzzySearch and hybridSearch
\* return the input collection itself and leave the cache as it was (no
\* sweep, no lookup, no build); searchCourses with no search term, category
\* absent or 'all' and no positive limit returns as many items as its input.
C6_BlankQueryReturnsInput ==
  [][/\ (/\ call'.op \in {"fuzzySearch", "hybridSearch"}
         /\ Trim(call'.query) = <<>>)
        => /\ ret'.value = call'.data
           /\ ~ret'.lookup
           /\ searchCache' = searchCache
     /\ (/\ call'.op = "searchCourses"
         /\ Trim(call'.options.searchTerm) = <<>>
         /\ call'.options.category \in {"undefined", "all"}
         /\ call'.options.limit <= 0)
        => /\ Len(ret'.value) = Len(call'.data)
           /\ searchCache' = searchCache]_vars

\* A whitespace-only hybridSearch that returned its input while the cache
\* held an expired entry, which the call left in place.
C6_Witness ==
  /\ call.op = "hybridSearch"
  /\ call.query = <<" ">>
  /\ ret.value = call.data
  /\ ret.at = now
  /\ \E k \in DOMAIN searchCache : now - searchCache[k].timestamp > CACHE_TTL

\* C7: for a non-blank query whose trimmed length is below the configured
\* minMatchCharLength, fuzzySearch and fuzzySearchWithScores return the empty
\* sequence and leave the cache as it was (no sweep, no lookup, no build).
C7_ShortQueryReturnsEmpty ==
  [][(/\ call'.op \in {"fuzzySearch", "fuzzySearchWithScores"}
      /\ Trim(call'.query) # <<>>
      /\ call'.options.minMatchCharLength # Undef
      /\ Len(Trim(call'.query)) < call'.options.minMatchCharLength)
       => /\ ret'.value = <<>>
          /\ ~ret'.lookup
          /\ searchCache' = searchCache]_vars

\* A one-character fuzzySearchWithScores with minMatchCharLength 2 that
\* returned nothing while the cache held an index that matches the query.
C7_Witness ==
  /\ call.op = "fuzzySearchWithScores"
  /\ call.query = <<"a">>
  /\ call.data # <<>>
  /\ ret.value = <<>>
  /\ \E k \in DOMAIN searchCache :
        /\ k.options = call.options
        /\ FuseSearch(searchCache[k].fuse, <<"a">>) # <<>>

\* The exact-match rule as C8 states it.
C8_Exact(x, q, exactKeys) ==
  \E k \in 1..Len(exactKeys) :
    /\ x[exactKeys[k]] # <<>>
    /\ \/ ToLowerCase(x[exactKeys[k]]) = q
       \/ StartsWith(ToLowerCase(x[exactKeys[k]]), q)

\* The result C8 states, given the exact matches and what fuzzySearch
\* returned: the exact matches, then the fuzzy results less the exact ones.
C8_Result(value, cache, exacts, fuzzy, q, exactKeys) ==
  /\ value = exacts \o SelectSeq(fuzzy.value, LAMBDA x : ~Has(exacts, x))
  /\ \A i \in (Len(exacts) + 1)..Len(value) : ~C8_Exact(value[i], q, exactKeys)
  /\ cache = fuzzy.cache

\* C8 for one call, once the data is split by the exact-match rule.
C8_Split(value, cache, before, t, c, exacts, others) ==
  IF exacts = <<>>
  THEN C8_Result(value, cache, <<>>,
                 fuzzySearch(before, t, 0, c.data, c.query, c.options),
                 ToLowerCase(Trim(c.query)), <<>>)
  ELSE C8_Result(value, cache, exacts,
                 fuzzySearch(before, t, 0, others, c.query, c.options),
                 ToLowerCase(Trim(c.query)), c.exactMatchKeys)

----------------------------------------------------------------------------
(* Claims about the course classifier (specification SpecEnrich). *)

\* C9: enrichCourses gives a course whose rank parses as a number that
\* number as rankNum, and classifies it safe iff rankNum < atar - 5, reach
\* iff rankNum > atar + 5, and target otherwise; a rank equal to atar - 5 or
\* to atar + 5 is target.
C9_ClassifiedByBand ==
  call.op = "enrichCourses"
    => /\ Len(ret.value) = Len(call.data)
       /\ \A i \in 1..Len(call.data) :
            (/\ call.data[i].rank \notin RankCodes
             /\ ~parseFloat(call.data[i].rank).nan)
              => /\ ret.value[i].rankNum = parseFloat(call.data[i].rank)
                 /\ ret.value[i].category \in {"safe", "target", "reach"}
                 /\ ret.value[i].category = "safe"
                      <=> NumLt(ret.value[i].rankNum, NumAdd(call.atar, -5))
                 /\ ret.value[i].category = "reach"
                      <=> NumGt(ret.value[i].rankNum, NumAdd(call.atar, 5))
                 /\ (ret.value[i].rankNum = NumAdd(call.atar, -5)
                     \/ ret.value[i].rankNum = NumAdd(call.atar, 5))
                      => ret.value[i].category = "target"

\* A list with one course exactly at atar - 5 and one exactly at atar + 5,
\* both classified target.
C9_Witness ==
  /\ call.op = "enrichCourses"
  /\ Len(ret.value) = 2
  /\ ret.value[1].rankNum = NumAdd(call.atar, -5)
  /\ ret.value[2].rankNum = NumAdd(call.atar, 5)
  /\ ret.value[1].category = "target"
  /\ ret.value[2].category = "target"

\* C10: enrichCourses returns an enrichment for every course, and a course
\* whose rank is a rank code or cannot be parsed as a number gets category
\* unknown and rankNum exactly 0.
C10_UnknownRankIsZero ==
  call.op = "enrichCourses"
    => /\ Len(ret.value) = Len(call.data)
       /\ \A i \in 1..Len(call.data) :
            (\/ call.data[i].rank \in RankCodes
             \/ parseFloat(call.data[i].rank).nan)
              => /\ ret.value[i].category = "unknown"
                 /\ ret.value[i].rankNum = Num(0, 1)

----------------------------------------------------------------------------
(* Claims about the course search by term (specification SpecTerms). *)

\* The qualifying words of the last call's term: trimmed, lowercased, split
\* on white space, length >= 2.
C11_Words == QualifyingWords(ToLowerCase(Trim(call.options.searchTerm)))

\* institution + ' ' + name + ' ' + code of a course, lowercased, holds all
\* the qualifying words.
C11_HasAll(c) ==
  \A w \in 1..Len(C11_Words) :
    Includes(ToLowerCase(c.institution \o <<" ">> \o c.name \o <<" ">> \o c.code),
             C11_Words[w])

\* The input courses that hold all the words and pass the category filter of
\* the last call.
C11_Kept ==
  {k \in 1..Len(call.data) :
     /\ C11_HasAll(call.data[k])
     /\ \/ call.options.category \in {"undefined", "all"}
        \/ enrichCourse(call.data[k], call.options.atar).category
             = call.options.category}

\* C11: when searchCourses uses the word-based result (non-blank term, no
\* fuzzy index consulted), every returned course's lowercased searchText,
\* which is institution + ' ' + name + ' ' + code, contains every qualifying
\* word of the term, and every input course that contains them all (and passes
\* the category filter) is returned, up to the limit.
C11_WordResultIsAndFilter ==
  (/\ call.op = "searchCourses"
   /\ Trim(call.options.searchTerm) # <<>>
   /\ ~ret.lookup)
    => /\ \A i \in 1..Len(ret.value) :
            /\ ret.value[i].searchText
                 = ret.value[i].institution \o <<" ">> \o ret.value[i].name
                     \o <<" ">> \o ret.value[i].code
            /\ C11_HasAll(ret.value[i])
       /\ call.options.limit <= 0
            => \A k \in C11_Kept :
                 Has(ret.value, enrichCourse(call.data[k], call.options.atar))
       /\ Len(ret.value)
            = IF call.options.limit > 0
                 /\ call.options.limit < Cardinality(C11_Kept)
              THEN call.options.limit ELSE Cardinality(C11_Kept)

\* A two-word term on three courses: the one course that holds both words is
\* returned, the two that hold one word each are not.
C11_Witness ==
  /\ call.op = "searchCourses"
  /\ call.options.searchTerm = <<"M", "o", " ", "m", "e">>
  /\ call.data = <<CourseC, CourseB, CourseA>>
  /\ call.options.category = "undefined"
  /\ ~ret.lookup
  /\ Len(ret.value) = 1
  /\ ret.value[1].code = CourseA.code

\* The value is the given sequence cut to its first limit items when limit is
\* positive, and the whole of it otherwise.
C12_IsCut(value, whole, limit) ==
  IF limit > 0 /\ limit < Len(whole) THEN value = SubSeq(whole, 1, limit)
  ELSE value = whole

\* The value is what the search without category and limit returned, reduced
\* to the courses of the category when one is given, then cut to the limit.
C12_FilteredThenCut(value, searched, options) ==
  /\ C12_IsCut(value,
               IF options.category \in {"undefined", "all"} THEN searched
               ELSE SelectSeq(searched,
                              LAMBDA x : x.category = options.category),
               options.limit)
  /\ options.category \notin {"undefined", "all"}
       => \A i \in 1..Len(value) : value[i].category = options.category
  /\ options.limit > 0 => Len(value) <= options.limit

\* C12: searchCourses filters by category after the search step and applies
\* the limit last: what a call returns is what the same call without
\* category and limit returns from the same cache (searched and, without a
\* term, sorted), reduced to the courses of the given category when it is
\* given and not 'all', then cut to its first limit items when limit is
\* positive; so every returned course has that category and there are at
\* most limit of them.
C12_CategoryThenLimit ==
  [][(call'.op = "searchCourses" /\ now' = now)
       => C12_FilteredThenCut(ret'.value,
            searchCourses(searchCache, now, 0, call'.data,
              CourseSearchOptions(call'.options.searchTerm, "undefined",
                                  call'.options.atar, 0)).value,
            call'.options)]_vars

\* Three courses, two of them target, the best of the two last in the input:
\* with category target and limit 1 only that one is returned.
C12_Witness ==
  /\ call.op = "searchCourses"
  /\ call.data = <<CourseC, CourseB, CourseA>>
  /\ call.options.searchTerm = <<>>
  /\ call.options.category = "target"
  /\ call.options.limit = 1
  /\ Len(ret.value) = 1
  /\ ret.value[1].code = CourseA.code

\* C14: when searchCourses is called with no search term, no course of
\* category unknown precedes a course of another category in the returned
\* sequence, and of two returned courses of other categories the earlier one
\* never has the smaller rankNum.
C14_UnknownLastRankDescending ==
  (call.op = "searchCourses" /\ call.options.searchTerm = <<>>)
    => \A i, j \in 1..Len(ret.value) :
         i < j =>
           /\ ~(/\ ret.value[i].category = "unknown"
                /\ ret.value[j].category # "unknown")
           /\ (/\ ret.value[i].category # "unknown"
               /\ ret.value[j].category # "unknown")
                => ~NumLt(ret.value[i].rankNum, ret.value[j].rankNum)

\* Three courses given in the reverse of the sorted order: unknown, rank 85,
\* rank 95.
C14_Witness ==
  /\ call.op = "searchCourses"
  /\ call.options.searchTerm = <<>>
  /\ call.options.category = "undefined"
  /\ call.options.limit = 0
  /\ call.data = <<CourseC, CourseB, CourseA>>
  /\ Pluck(ret.value, "code") = <<CourseA.code, CourseB.code, CourseC.code>>
  /\ ret.value[3].category = "unknown"

\* The number of items of the word-based result of the last call: the input
\* courses that hold all the qualifying words (all of them when no word
\* qualifies).
C19_WordResultLen ==
  Cardinality({k \in 1..Len(call.data) : C11_HasAll(call.data[k])})

\* C19: searchCourses with a non-blank term returns the word-based result
\* iff that result is not empty and the term has at least 2 qualifying words
\* or the result has at least 3 items; otherwise it consults the fuzzy index
\* stored for the keys searchText:2, name:1.5, institution:1.5, code:1,
\* threshold 0.4 and minMatchCharLength 2, and returns what that index finds
\* for the trimmed term (then filtered by category and cut to the limit).
C19_StrategySelection ==
  (call.op = "searchCourses" /\ Trim(call.options.searchTerm) # <<>>)
    => /\ ~ret.lookup
            <=> /\ C19_WordResultLen > 0
                /\ \/ Len(C11_Words) >= 2
                   \/ C19_WordResultLen >= 3
       /\ ret.lookup
            => /\ ret.key.options
                    = [keys |-> <<[name |-> "searchText", weight |-> 20],
                                  [name |-> "name", weight |-> 15],
                                  [name |-> "institution", weight |-> 15],
                                  [name |-> "code", weight |-> 10]>>,
                       threshold |-> 4, minMatchCharLength |-> 2]
               /\ ret.key \in DOMAIN searchCache
               /\ ret.value
                    = applyLimit(applyCategory(
                        Pluck(FuseSearch(searchCache[ret.key].fuse,
                                         Trim(call.options.searchTerm)), "item"),
                        call.options), call.options)

\* A term of one word that three courses hold: the word-based result is
\* used, all three are returned and no index is consulted.
C19_Witness ==
  /\ call.op = "searchCourses"
  /\ call.options.searchTerm = <<"m", "o">>
  /\ call.options.category = "undefined"
  /\ call.options.limit = 0
  /\ call.data = <<CourseD, CourseB, CourseA>>
  /\ ~ret.lookup
  /\ Len(ret.value) = 3
  /\ searchCache # EmptyCache

\* C20: when a non-blank term has no qualifying word, searchCourses filters
\* nothing: apart from the category filter and the limit it returns all the
\* enriched courses, whatever the length of the list.
C20_NoWordsReturnsAll ==
  (/\ call.op = "searchCourses"
   /\ Trim(call.options.searchTerm) # <<>>
   /\ Len(C11_Words) = 0
   /\ call.options.category \in {"undefined", "all"}
   /\ call.options.limit <= 0)
    => ret.value = enrichCourses(call.data, call.options.atar)

\* The same for lists of three courses and more.
C20_ThreeOrMore ==
  (/\ call.op = "searchCourses"
   /\ Trim(call.options.searchTerm) # <<>>
   /\ Len(C11_Words) = 0
   /\ Len(call.data) >= 3
   /\ call.options.category \in {"undefined", "all"}
   /\ call.options.limit <= 0)
    => ret.value = enrichCourses(call.data, call.options.atar)

----------------------------------------------------------------------------
(* Claims about limits (specifications SpecTerms and SpecSubjects). *)

\* What the call returns from the given cache when nothing is cut off: for
\* searchCourses with no limit, for searchSubjects with a limit as long as
\* the input.
C13_Uncut(cache, t, c) ==
  IF c.op = "searchCourses"
  THEN searchCourses(cache, t, 0, c.data, [c.options EXCEPT !.limit = 0]).value
  ELSE searchSubjects(cache, t, 0, c.data,
                      [c.options EXCEPT !.limit = Len(c.data)]).value

\* C13: a negative limit means no limiting: a call to searchCourses or to
\* searchSubjects with a negative limit returns the same sequence as the same
\* call on the same data from the same cache with nothing cut off; no item
\* is dropped.
C13_NegativeLimitIsNoLimit ==
  [][(/\ call'.op \in {"searchCourses", "searchSubjects"}
      /\ now' = now
      /\ call'.options.limit < 0)
       => ret'.value = C13_Uncut(searchCache, now, call')]_vars

----------------------------------------------------------------------------
(* Claims about the subject search (specification SpecSubjects). *)

\* The trimmed, lowercased query of the last call and its alias targets.
C15_Query == ToLowerCase(Trim(call.options.query))

C15_Targets == aliasTargetsOf(C15_Query, call.options.aliases)

\* The priority of a subject under the last call's query: +100 per alias
\* target equal to its lowercased name, +50 per alias target its name starts
\* with, +80 name equals query, +40 name starts with query, +70 code equals
\* query, +30 code starts with query.
C15_Priority(s) ==
  100 * Cardinality({i \in 1..Len(C15_Targets) :
                       ToLowerCase(s.name) = ToLowerCase(C15_Targets[i])})
  + 50 * Cardinality({i \in 1..Len(C15_Targets) :
                        StartsWith(ToLowerCase(s.name),
                                   ToLowerCase(C15_Targets[i]))})
  + (IF ToLowerCase(s.name) = C15_Query THEN 80 ELSE 0)
  + (IF StartsWith(ToLowerCase(s.name), C15_Query) THEN 40 ELSE 0)
  + (IF ToLowerCase(s.code) = C15_Query THEN 70 ELSE 0)
  + (IF StartsWith(ToLowerCase(s.code), C15_Query) THEN 30 ELSE 0)

\* The input subjects of priority > 0, by descending priority, ties in input
\* order, each with its searchText.
C15_HighTier ==
  LET high == SelectSeq(call.data, LAMBDA s : C15_Priority(s) > 0)
      sorted == StableSort(high,
                  [i \in 1..Len(high) |-> [j \in 1..Len(high) |->
                     C15_Priority(high[j]) - C15_Priority(high[i])]])
  IN  [i \in 1..Len(high) |->
         [name |-> sorted[i].name, code |-> sorted[i].code,
          searchText |-> sorted[i].name \o <<" ">> \o sorted[i].code]]

\* The returned sequence is the high tier followed by input subjects of
\* priority 0, cut to the limit.
C15_Tiers(value, high, limit) ==
  /\ Len(value) <= limit
  /\ Len(value) >= (IF limit < Len(high) THEN limit ELSE Len(high))
  /\ \A i \in 1..Len(value) :
       IF i <= Len(high) THEN value[i] = high[i]
       ELSE /\ C15_Priority(value[i]) = 0
            /\ \E k \in 1..Len(call.data) :
                 /\ value[i].name = call.data[k].name
                 /\ value[i].code = call.data[k].code

\* C15: searchSubjects with a non-blank query returns the subjects of
\* priority > 0 first, by descending priority with ties in input order, then
\* only subjects of priority 0 (the fuzzy matches), the whole cut to limit;
\* the priority is the sum of the six terms of C15_Priority.
C15_PriorityThenFuzzy ==
  (/\ call.op = "searchSubjects"
   /\ C15_Query # <<>>
   /\ call.options.limit >= 0)
    => C15_Tiers(ret.value, C15_HighTier, call.options.limit)

\* The same on a call that built its own index.
C15_OwnIndex ==
  (/\ call.op = "searchSubjects"
   /\ C15_Query # <<>>
   /\ call.options.limit >= 0
   /\ ~ret.hit)
    => C15_Tiers(ret.value, C15_HighTier, call.options.limit)

----------------------------------------------------------------------------
(* Claims about the student search (specification SpecStudents). *)

\* The words of the last call's query, of the student's name and school, and
\* the student's subject names, all lowercased.
C16_QueryWords == WordsOf(ToLowerCase(call.query), {" "})

C16_NameWords == WordsOf(ToLowerCase(call.data.name), {" ", ","})

C16_Fields ==
  {ToLowerCase(call.data.name), ToLowerCase(call.data.school)}
    \cup {ToLowerCase(call.data.subjects[i].subject) :
            i \in 1..Len(call.data.subjects)}

C16_WordTargets ==
  {C16_NameWords[i] : i \in 1..Len(C16_NameWords)}
    \cup {WordsOf(ToLowerCase(call.data.school), {" ", ","})[i] :
            i \in 1..Len(WordsOf(ToLowerCase(call.data.school), {" ", ","}))}
    \cup {ToLowerCase(call.data.subjects[i].subject) :
            i \in 1..Len(call.data.subjects)}

\* The query is the words of the student's name in some order, separated by
\* single spaces.
C16_IsReordering ==
  /\ SplitWs(ToLowerCase(call.query)) = C16_QueryWords
  /\ Len(C16_QueryWords) = Len(C16_NameWords)
  /\ \E f \in [1..Len(C16_NameWords) -> 1..Len(C16_NameWords)] :
       /\ \A i, j \in 1..Len(C16_NameWords) : f[i] = f[j] => i = j
       /\ \A i \in 1..Len(C16_NameWords) :
            C16_QueryWords[i] = C16_NameWords[f[i]]

\* C16: studentMatchesQuery is true iff the lowercased query is a substring
\* of the lowercased name, school or a subject name, or the query has at
\* least 2 words and each of them is a substring of a word of the name, a
\* word of the school or a subject name; so a query that is the words of
\* the student's name in any order matches.
C16_DirectOrEveryWord ==
  call.op = "studentMatchesQuery"
    => /\ ret.value
            <=> \/ \E text \in C16_Fields :
                     Includes(text, ToLowerCase(call.query))
                \/ /\ Len(C16_QueryWords) >= 2
                   /\ \A q \in 1..Len(C16_QueryWords) :
                        \E text \in C16_WordTargets :
                          Includes(text, C16_QueryWords[q])
       /\ C16_IsReordering => ret.value

\* The name "b,A" asked for as "A B": no field holds the query, each word of
\* it is a word of the name.
C16_Witness ==
  /\ call.op = "studentMatchesQuery"
  /\ call.data.name = <<"b", ",", "A">>
  /\ call.query = <<"A", " ", "B">>
  /\ call.data.subjects = <<>>
  /\ C16_IsReordering
  /\ ~(\E text \in C16_Fields : Includes(text, ToLowerCase(call.query)))
  /\ ret.value

\* C17: sortStudents returns the array it was given, reordered in place as
\* a permutation of its input, in descending order of year with a missing
\* year counted as 0, and any two students whose years are equal under that
\* count (a missing year and year 0 included) in ascending order of name.
C17_YearThenName ==
  call.op = "sortStudents"
    => /\ call.same
       /\ call.after = ret.value
       /\ Len(ret.value) = Len(call.data)
       /\ \A s \in SortStudents :
            Cardinality({i \in 1..Len(ret.value) : ret.value[i] = s})
              = Cardinality({i \in 1..Len(call.data) : call.data[i] = s})
       /\ \A i, j \in 1..Len(ret.value) :
            i < j =>
              /\ yearOrZero(ret.value[i].year) >= yearOrZero(ret.value[j].year)
              /\ yearOrZero(ret.value[i].year) = yearOrZero(ret.value[j].year)
                   => localeCompare(ret.value[i].name, ret.value[j].name) <= 0

\* The same for arrays in which no student lacks a year.
C17_AllYearsGiven ==
  (/\ call.op = "sortStudents"
   /\ \A i \in 1..Len(call.data) : call.data[i].year # Undef)
    => /\ call.same
       /\ call.after = ret.value
       /\ \A s \in SortStudents :
            Cardinality({i \in 1..Len(ret.value) : ret.value[i] = s})
              = Cardinality({i \in 1..Len(call.data) : call.data[i] = s})
       /\ \A i, j \in 1..Len(ret.value) :
            i < j =>
              /\ ret.value[i].year >= ret.value[j].year
              /\ ret.value[i].year = ret.value[j].year
                   => localeCompare(ret.value[i].name, ret.value[j].name) <= 0

----------------------------------------------------------------------------
(* Claims about the caller's data (specification SpecFrame). *)

----------------------------------------------------------------------------
(* Claims about the relevance order of the word-based course search
   (specification SpecWords). *)

\* The qualifying words of the last call's term.
C21_Words == QualifyingWords(ToLowerCase(Trim(call.options.searchTerm)))

\* The value of the first tier that matches the word for a course.
C21_Tier(c, word) ==
  CASE ToLowerCase(c.institution) = word -> 100
    [] ToLowerCase(c.name) = word -> 90
    [] StartsWith(ToLowerCase(c.institution), word) -> 50
    [] StartsWith(ToLowerCase(c.name), word) -> 40
    [] Includes(ToLowerCase(c.institution), <<" ">> \o word) -> 20
    [] Includes(ToLowerCase(c.name), <<" ">> \o word) -> 15
    [] OTHER -> 1

\* The sum of the tiers of a course over the qualifying words.
C21_Score(c) ==
  SumSeq([w \in 1..Len(C21_Words) |-> C21_Tier(c, C21_Words[w])])

\* The position of a returned course in the last call's input list.
C21_Index(c) == CHOOSE k \in 1..Len(call.data) : call.data[k].code = c.code

\* C21: when searchCourses returns the word-based result (a term with at
\* least one qualifying word, no fuzzy index consulted), the returned courses
\* are in descending order of the sum, over the qualifying words, of the
\* first matching tier (institution equals 100, name equals 90, institution
\* starts with 50, name starts with 40, institution contains ' '+word 20,
\* name contains ' '+word 15, otherwise 1), and courses of equal score are in
\* their input order.
C21_FirstTierSumDescendingStable ==
  (/\ call.op = "searchCourses"
   /\ Len(C21_Words) > 0
   /\ ~ret.lookup)
    => \A i, j \in 1..Len(ret.value) :
         i < j =>
           \/ C21_Score(ret.value[i]) > C21_Score(ret.value[j])
           \/ /\ C21_Score(ret.value[i]) = C21_Score(ret.value[j])
              /\ C21_Index(ret.value[i]) < C21_Index(ret.value[j])

\* The word "ab" on a course that holds it only inside its name (score 1),
\* a course whose institution and name both equal it (score 100, one tier)
\* and a course whose institution equals it (score 100): the two courses of
\* score 100 come first in their input order, the course of score 1 last.
C21_Witness ==
  /\ call.op = "searchCourses"
  /\ call.options.searchTerm = <<"a", "b">>
  /\ Pluck(call.data, "code") = <<<<"6">>, <<"3">>, <<"1">>>>
  /\ ~ret.lookup
  /\ Pluck(ret.value, "code") = <<<<"3">>, <<"1">>, <<"6">>>>
  /\ C21_Score(ret.value[1]) = 100
  /\ C21_Score(ret.value[3]) = 1

----------------------------------------------------------------------------
(* Claims about the subject query normaliser (specification SpecAliases). *)

\* The aliases of the last call whose key equals the trimmed, lowercased
\* query or is followed by a space at its start.
C23_Matching ==
  SelectSeq(call.data, LAMBDA e :
    \/ ToLowerCase(Trim(call.query)) = e.alias
    \/ StartsWith(ToLowerCase(Trim(call.query)), e.alias \o <<" ">>))

\* The target lists of the first n matching aliases, one after the other.
RECURSIVE C23_Concat(_)
C23_Concat(n) ==
  IF n = 0 THEN <<>> ELSE C23_Concat(n - 1) \o C23_Matching[n].targets

\* C23: normaliseSubjectQuery returns the trimmed, lowercased query, and
\* aliasTargets is the concatenation, in alias iteration order, of the target
\* lists of exactly the aliases whose key equals the normalised query or is
\* a prefix of it followed by a space; the targets of several matching
\* aliases are all kept, duplicates included, and with no aliases the list is
\* empty.
C23_AliasTargetsConcatenated ==
  call.op = "normaliseSubjectQuery"
    => /\ ret.value.query = ToLowerCase(Trim(call.query))
       /\ ret.value.aliasTargets = C23_Concat(Len(C23_Matching))
       /\ call.data = <<>> => ret.value.aliasTargets = <<>>

\* The query 'M x' against the aliases "mx", "m x" and "m": the last two
\* match, and the name they share is returned twice.
C23_Witness ==
  /\ call.op = "normaliseSubjectQuery"
  /\ call.query = <<"M", " ", "x">>
  /\ Pluck(call.data, "alias") = <<<<"m", "x">>, <<"m", " ", "x">>, <<"m">>>>
  /\ ret.value.query = <<"m", " ", "x">>
  /\ ret.value.aliasTargets = <<<<"A", "b">>, <<"c">>, <<"A", "b">>>>

----------------------------------------------------------------------------
(* Claims about interleaved createFuzzySearch calls (specification
   SpecInterleaved). *)

\* C24: when the sweep, lookup and insert steps of two createFuzzySearch
\* calls under one cache key are interleaved, every caller that has returned
\* holds an index built by one of the calls, and once no call is in progress
\* the cache holds exactly one entry, under that key; and a call that no
\* other caller's step interrupted finds nothing under the key only when no
\* index was stored within the last CACHE_TTL, so an uninterrupted second
\* call within the TTL does not rebuild.
C24_InterleavingSafe ==
  /\ \A p \in 1..2 :
       inflight[p].pc = "done"
         => inflight[p].fuse \in {NewFuse(<<ItemA>>, OptionsName),
                                  NewFuse(<<ItemC>>, OptionsName)}
  /\ (/\ \A p \in 1..2 : inflight[p].pc \in {"idle", "done"}
      /\ \E p \in 1..2 : inflight[p].pc = "done")
       => DOMAIN searchCache = {[options |-> OptionsName, dataLength |-> 1]}
  /\ \A p \in 1..2 :
       (inflight[p].pc = "miss" /\ ~inflight[p].preempted)
         => \A q \in 1..2 :
              \/ inflight[q].builtAt = Undef
              \/ now - inflight[q].builtAt > CACHE_TTL

\* Both callers have returned from interleaved calls at the same instant,
\* each with the index it built itself over its own collection, and the
\* cache holds the one that was stored last.
C24_Witness ==
  /\ \A p \in 1..2 :
       /\ inflight[p].pc = "done"
       /\ inflight[p].preempted
       /\ inflight[p].builtAt = now
  /\ inflight[1].fuse = NewFuse(<<ItemA>>, OptionsName)
  /\ inflight[2].fuse = NewFuse(<<ItemC>>, OptionsName)
  /\ DOMAIN searchCache = {[options |-> OptionsName, dataLength |-> 1]}
  /\ searchCache[[options |-> OptionsName, dataLength |-> 1]].fuse
       = inflight[2].fuse

----------------------------------------------------------------------------
(* Claims about the order of the fuzzy tier of the subject search
   (specification SpecFuzzyTier). *)

\* The score the matcher of searchSubjects (keys name and code, threshold
\* 0.3) gives a subject for the last call's query, in hundredths.
C22_Score(s) ==
  FuseScore(NewFuse(<<>>, Options(<<Key("name", 20), Key("code", 10)>>, 3, 2)),
            s, ToLowerCase(Trim(call.options.query)))

\* The positions of the last result that hold fuzzy-tier subjects: those
\* whose name and code neither equal nor start with the query.
C22_FuzzyTier ==
  {i \in 1..Len(ret.value) :
     /\ ~StartsWith(ToLowerCase(ret.value[i].name),
                    ToLowerCase(Trim(call.options.query)))
     /\ ~StartsWith(ToLowerCase(ret.value[i].code),
                    ToLowerCase(Trim(call.options.query)))}

\* C22: in the result of searchSubjects with a non-blank query, of any two
\* fuzzy-tier subjects the one the matcher scores lower (0 is the best
\* score) comes first.
C22_FuzzyTierAscending ==
  (/\ call.op = "searchSubjects"
   /\ Trim(call.options.query) # <<>>)
    => \A i, j \in C22_FuzzyTier :
         i < j => C22_Score(ret.value[i]) <= C22_Score(ret.value[j])

\* The same for the fuzzy-tier subjects whose score is not 0.
C22_NonZeroAscending ==
  (/\ call.op = "searchSubjects"
   /\ Trim(call.options.query) # <<>>)
    => \A i, j \in C22_FuzzyTier :
         (i < j /\ C22_Score(ret.value[i]) # 0 /\ C22_Score(ret.value[j]) # 0)
           => C22_Score(ret.value[i]) <= C22_Score(ret.value[j])

----------------------------------------------------------------------------
(* Claims about the age of cache entries (specification Spec). *)

\* C25: a createFuzzySearch call that hits leaves the entry exactly as it
\* found it, time stamp included; a time stamp is written only by a call that
\* builds the index, which stamps it with the time the index was stored; and
\* an entry older than CACHE_TTL when a call reads the clock is dropped by
\* that call, whichever key the call is for: if it is the call's own key the
\* call finds nothing and stores a newly built index, otherwise the key is
\* gone from the cache, so that the next call for it finds nothing either.
C25_HitDoesNotRefresh ==
  call.op = "createFuzzySearch"
    => /\ ret.hit => searchCache[ret.key] \in pre
       /\ ~ret.hit =>
            /\ searchCache[ret.key].fuse = NewFuse(call.data, call.options)
            /\ searchCache[ret.key].timestamp >= ret.at
       /\ \A e \in pre :
            ret.at - e.timestamp > CACHE_TTL
              => /\ ~ret.hit
                 /\ ret.key \in ret.dropped
                 /\ searchCache[ret.key] # e
       /\ \A k \in ret.dropped : k # ret.key => k \notin DOMAIN searchCache
       /\ \A k \in DOMAIN searchCache :
            ret.at - searchCache[k].timestamp <= CACHE_TTL

\* An entry built at time 0 and found again at the age of exactly CACHE_TTL
\* still carries the time 0 after the hit.
C25_Witness ==
  /\ call.op = "createFuzzySearch"
  /\ ret.hit
  /\ ret.at = CACHE_TTL
  /\ searchCache[ret.key].timestamp = 0

\* The call made one millisecond later drops that entry and rebuilds it.
C25_Expired ==
  /\ call.op = "createFuzzySearch"
  /\ ~ret.hit
  /\ ret.at = CACHE_TTL + 1
  /\ ret.key \in ret.dropped
  /\ \E e \in pre : e.timestamp = 0
  /\ searchCache[ret.key].timestamp >= ret.at

----------------------------------------------------------------------------
(* Claims about the subjects a subject search returns (specification
   SpecSubjects). *)

\* The returned subject at position i is the input subject at position k.
C26_Same(i, k) ==
  /\ ret.value[i].name = call.data[k].name
  /\ ret.value[i].code = call.data[k].code

\* No two positions of the result hold the same subject, and every position
\* holds a subject of the last call's input list.
C26_DistinctAndOwn ==
  /\ \A i, j \in 1..Len(ret.value) :
       i # j => \/ ret.value[i].name # ret.value[j].name
                \/ ret.value[i].code # ret.value[j].code
  /\ \A i \in 1..Len(ret.value) : \E k \in 1..Len(call.data) : C26_Same(i, k)

\* C26: whatever searchSubjects calls came before, a searchSubjects call on
\* a list of distinct subjects returns no subject twice and only subjects of
\* its own input list.
C26_NoDuplicateNoForeign ==
  (/\ call.op = "searchSubjects"
   /\ \A k, l \in 1..Len(call.data) : k # l => call.data[k] # call.data[l])
    => C26_DistinctAndOwn

\* The same on a call that did not find an index in the cache.
C26_OwnIndex ==
  (/\ call.op = "searchSubjects"
   /\ ~ret.hit
   /\ \A k, l \in 1..Len(call.data) : k # l => call.data[k] # call.data[l])
    => C26_DistinctAndOwn

\* A call that returned the same subject twice.
C26_Twice ==
  /\ call.op = "searchSubjects"
  /\ \E i, j \in 1..Len(ret.value) : i # j /\ ret.value[i] = ret.value[j]

====
